---- MODULE Spec2Model ----
(***************************************************************************)
(* Verification model of the keyvault daemon: the request scheduler        *)
(* (PoolManager::generate, parallel_generate_multi, swarm_generate), the   *)
(* in-memory rate tracker, the model registry and classifier, the key      *)
(* store's status column and usage log, and the discovery poller.          *)
(***************************************************************************)
EXTENDS Integers, Sequences, FiniteSets, TLC

\* ------------------------------------------------------------------------
\* Bounds of the model
\* ------------------------------------------------------------------------

\* Number of task slots: every generate call takes one, a parallel or swarm
\* call takes one per submitted task.
NumTasks == 2

\* Number of discovery scans the poller runs.
MaxScans == 1

\* ------------------------------------------------------------------------
\* Strings (Rust str::contains, to_lowercase, split_whitespace, matches)
\* ------------------------------------------------------------------------

\* str::contains(sub)
Contains(s, sub) ==
  \E i \in 1..(Len(s) - Len(sub) + 1) : SubSeq(s, i, i + Len(sub) - 1) = sub

\* one ASCII character to lower case
LowerChar(c) ==
  CASE c = "A" -> "a" [] c = "B" -> "b" [] c = "C" -> "c" [] c = "D" -> "d"
    [] c = "E" -> "e" [] c = "F" -> "f" [] c = "G" -> "g" [] c = "H" -> "h"
    [] c = "I" -> "i" [] c = "J" -> "j" [] c = "K" -> "k" [] c = "L" -> "l"
    [] c = "M" -> "m" [] c = "N" -> "n" [] c = "O" -> "o" [] c = "P" -> "p"
    [] c = "Q" -> "q" [] c = "R" -> "r" [] c = "S" -> "s" [] c = "T" -> "t"
    [] c = "U" -> "u" [] c = "V" -> "v" [] c = "W" -> "w" [] c = "X" -> "x"
    [] c = "Y" -> "y" [] c = "Z" -> "z" [] OTHER -> c

\* str::to_lowercase on ASCII: every character to lower case (the string is
\* halved so that long prompts do not nest deeply)
RECURSIVE to_lowercase(_)
to_lowercase(s) ==
  IF Len(s) = 0 THEN ""
  ELSE IF Len(s) = 1 THEN LowerChar(s)
  ELSE to_lowercase(SubSeq(s, 1, Len(s) \div 2))
         \o to_lowercase(SubSeq(s, Len(s) \div 2 + 1, Len(s)))

\* prompt.split_whitespace().count(): the number of maximal runs of
\* non-blank characters
split_whitespace_count(s) ==
  Cardinality({ i \in 1..Len(s) :
                  /\ SubSeq(s, i, i) # " "
                  /\ (i = 1 \/ SubSeq(s, i - 1, i - 1) = " ") })

\* the matches of pat in s that start at `from` or later, taken left to
\* right without overlap
RECURSIVE matches_from(_, _, _)
matches_from(s, pat, from) ==
  LET starts == { i \in from..(Len(s) - Len(pat) + 1) : SubSeq(s, i, i + Len(pat) - 1) = pat } IN
  IF starts = {} THEN 0
  ELSE 1 + matches_from(s, pat, (CHOOSE i \in starts : \A j \in starts : i <= j) + Len(pat))

\* lower.matches(pat).count(): non-overlapping occurrences, left to right
matches_count(s, pat) == matches_from(s, pat, 1)

\* iter().any(|p| lower.contains(p))
AnyContains(s, pats) == \E i \in 1..Len(pats) : Contains(s, pats[i])

RECURSIVE SumSeq(_)
SumSeq(q) == IF q = <<>> THEN 0 ELSE q[1] + SumSeq(Tail(q))

\* ------------------------------------------------------------------------
\* Model registry (pool/registry.rs)
\* ------------------------------------------------------------------------

\* TaskComplexity, a totally ordered enum
Trivial == 0
Simple == 1
Medium == 2
Complex == 3
Expert == 4
TaskComplexity == {Trivial, Simple, Medium, Complex, Expert}

None == "none"

GOOGLE_MODELS == <<
  [id |-> "gemini-3-pro-preview",   provider |-> "google", code_quality |-> 5,
   free_rpm |-> 10, free_rpd |-> 100,  min_complexity |-> Complex, deprecated |-> FALSE],
  [id |-> "gemini-3-flash-preview", provider |-> "google", code_quality |-> 4,
   free_rpm |-> 10, free_rpd |-> 250,  min_complexity |-> Medium,  deprecated |-> FALSE],
  [id |-> "gemini-2.5-pro",         provider |-> "google", code_quality |-> 4,
   free_rpm |-> 5,  free_rpd |-> 100,  min_complexity |-> Complex, deprecated |-> FALSE],
  [id |-> "gemini-2.5-flash",       provider |-> "google", code_quality |-> 3,
   free_rpm |-> 10, free_rpd |-> 250,  min_complexity |-> Simple,  deprecated |-> FALSE],
  [id |-> "gemini-2.5-flash-lite",  provider |-> "google", code_quality |-> 2,
   free_rpm |-> 15, free_rpd |-> 1000, min_complexity |-> Trivial, deprecated |-> FALSE],
  [id |-> "gemini-2.0-flash",       provider |-> "google", code_quality |-> 2,
   free_rpm |-> 15, free_rpd |-> 1500, min_complexity |-> Trivial, deprecated |-> TRUE] >>

ModelIds == { GOOGLE_MODELS[i].id : i \in 1..Len(GOOGLE_MODELS) }

\* GOOGLE_MODELS.iter().find(|m| m.id == id), as an index (0 for None)
get_model_idx(id) ==
  IF \E i \in 1..Len(GOOGLE_MODELS) : GOOGLE_MODELS[i].id = id
  THEN CHOOSE i \in 1..Len(GOOGLE_MODELS) :
         /\ GOOGLE_MODELS[i].id = id
         /\ \A j \in 1..(i - 1) : GOOGLE_MODELS[j].id # id
  ELSE 0

\* Option<&ModelSpec> is modelled by the model's id, None by "none"
get_model(id) == IF get_model_idx(id) = 0 THEN None ELSE id

\* the ModelSpec behind a model id that get_model found
ModelSpec(id) == GOOGLE_MODELS[get_model_idx(id)]

\* the candidates of cheapest_for_complexity and best_for_complexity
Candidates(complexity) ==
  { i \in 1..Len(GOOGLE_MODELS) :
      ~GOOGLE_MODELS[i].deprecated /\ GOOGLE_MODELS[i].min_complexity <= complexity }

\* sort_by (a stable sort) on (free_rpd descending, code_quality ascending),
\* then first(): i comes before j
CheaperFirst(i, j) ==
  LET a == GOOGLE_MODELS[i]  b == GOOGLE_MODELS[j] IN
  \/ a.free_rpd > b.free_rpd
  \/ a.free_rpd = b.free_rpd /\ a.code_quality < b.code_quality
  \/ a.free_rpd = b.free_rpd /\ a.code_quality = b.code_quality /\ i < j

\* a choice among all models that fit, the deprecated ones too, which
\* C26_SelectFits must tell from the code
cheapest_with_deprecated(complexity) ==
  LET fit == { i \in 1..Len(GOOGLE_MODELS) : GOOGLE_MODELS[i].min_complexity <= complexity } IN
  GOOGLE_MODELS[CHOOSE i \in fit : \A j \in fit \ {i} : CheaperFirst(i, j)].id

cheapest_for_complexity(complexity) ==
  IF Candidates(complexity) = {} THEN None
  ELSE GOOGLE_MODELS[CHOOSE i \in Candidates(complexity) :
         \A j \in Candidates(complexity) \ {i} : CheaperFirst(i, j)].id

\* sort_by on code_quality descending (stable), then first()
BetterFirst(i, j) ==
  LET a == GOOGLE_MODELS[i]  b == GOOGLE_MODELS[j] IN
  \/ a.code_quality > b.code_quality
  \/ a.code_quality = b.code_quality /\ i < j

best_for_complexity(complexity) ==
  IF Candidates(complexity) = {} THEN None
  ELSE GOOGLE_MODELS[CHOOSE i \in Candidates(complexity) :
         \A j \in Candidates(complexity) \ {i} : BetterFirst(i, j)].id

\* ------------------------------------------------------------------------
\* Classifier (pool/classifier.rs)
\* ------------------------------------------------------------------------

expert_patterns == <<
  "cross-crate", "cross crate", "architecture", "system design", "redesign",
  "refactor entire", "restructure", "migrate from", "rewrite the",
  "design pattern", "dependency injection" >>

trivial_patterns == <<
  "rename", "import", "use statement", "fix typo", "remove unused",
  "delete line", "add comma", "fix syntax", "one-line", "single line",
  "change name" >>

simple_patterns == <<
  "test", "struct", "enum", "boilerplate", "scaffold", "template", "skeleton",
  "add field", "add method", "derive", "doc comment", "documentation" >>

complex_patterns == <<
  "algorithm", "security", "cryptograph", "encryption", "concurrent", "async",
  "parallel", "thread-safe", "thread safe", "race condition", "deadlock",
  "state machine", "parser", "lexer", "ast", "protocol", "serialization",
  "deserialization", "zero-copy", "unsafe", "lifetime", "trait object",
  "dynamic dispatch" >>

file_extensions == << ".rs ", ".ts ", ".js ", ".py ", ".go ", ".toml", ".json", ".yaml" >>

medium_patterns == <<
  "implement", "function", "method", "refactor", "handler", "endpoint", "api",
  "route", "module", "component", "service", "error handling", "validation",
  "convert" >>

\* a classifier that looks at the complex signals before the short-prompt
\* rules, which C36_ClassifyPriority must tell from the code
classify_complex_first(prompt) ==
  LET lower      == to_lowercase(prompt)
      word_count == split_whitespace_count(prompt)
  IN
  IF AnyContains(lower, expert_patterns) THEN Expert
  ELSE IF AnyContains(lower, complex_patterns) THEN Complex
  ELSE IF AnyContains(lower, trivial_patterns) THEN Trivial
  ELSE IF AnyContains(lower, simple_patterns) THEN Simple
  ELSE IF word_count <= 20 THEN Simple
  ELSE IF word_count <= 80 THEN Medium
  ELSE Complex

classify(prompt) ==
  LET lower      == to_lowercase(prompt)
      word_count == split_whitespace_count(prompt)
      file_refs  == SumSeq([i \in 1..Len(file_extensions) |->
                             matches_count(lower, file_extensions[i])])
      medium_hits == Cardinality({ i \in 1..Len(medium_patterns) :
                                     Contains(lower, medium_patterns[i]) })
  IN
  IF AnyContains(lower, expert_patterns) THEN Expert
  ELSE IF word_count <= 15 /\ AnyContains(lower, trivial_patterns) THEN Trivial
  ELSE IF word_count <= 15 /\ AnyContains(lower, simple_patterns) THEN Simple
  ELSE IF AnyContains(lower, complex_patterns) THEN Complex
  ELSE IF file_refs >= 4 THEN Complex
  ELSE IF medium_hits >= 2 \/ file_refs >= 2 THEN Medium
  ELSE IF AnyContains(lower, simple_patterns) THEN Simple
  ELSE IF AnyContains(lower, trivial_patterns) THEN Trivial
  ELSE IF word_count <= 20 THEN Simple
  ELSE IF word_count <= 80 THEN Medium
  ELSE Complex

\* `a.or_else(b).unwrap_or(c)` over model ids
OrElse(a, b) == IF a # None THEN a ELSE b

select_model(complexity) ==
  CASE complexity \in {Trivial, Simple} ->
         OrElse(cheapest_for_complexity(complexity), GOOGLE_MODELS[5].id)
    [] complexity = Medium ->
         OrElse(OrElse(get_model("gemini-3-flash-preview"), get_model("gemini-2.5-flash")),
                GOOGLE_MODELS[4].id)
    [] complexity = Complex ->
         OrElse(OrElse(get_model("gemini-3-pro-preview"), get_model("gemini-2.5-pro")),
                GOOGLE_MODELS[1].id)
    [] OTHER ->
         OrElse(best_for_complexity(complexity), GOOGLE_MODELS[1].id)

cascade == << "gemini-2.5-flash-lite", "gemini-2.5-flash", "gemini-3-flash-preview",
              "gemini-2.5-pro", "gemini-3-pro-preview" >>

\* a cascade that goes down from the top instead of ending there: the
\* variant of fallback_model that C4_CascadeScenario must tell from the code
fallback_model_down(current_model_id) ==
  IF current_model_id = "gemini-3-pro-preview" THEN "gemini-2.5-pro"
  ELSE IF current_model_id = "gemini-2.5-pro" THEN "gemini-3-flash-preview"
  ELSE IF current_model_id = "gemini-3-flash-preview" THEN "gemini-2.5-flash"
  ELSE IF current_model_id = "gemini-2.5-flash" THEN "gemini-2.5-flash-lite"
  ELSE None

\* a cascade that starts again at the bottom when it has passed the top,
\* which C27_FallbackClimbs must tell from the code
fallback_model_wrap(current_model_id) ==
  IF ~\E p \in 1..Len(cascade) : cascade[p] = current_model_id THEN None
  ELSE LET current_pos == CHOOSE p \in 1..Len(cascade) : cascade[p] = current_model_id
       IN cascade[(current_pos % Len(cascade)) + 1]

\* cascade.iter().position(..)?, then the first registered, non-deprecated
\* model strictly above it
fallback_model(current_model_id) ==
  IF ~\E p \in 1..Len(cascade) : cascade[p] = current_model_id THEN None
  ELSE LET current_pos == CHOOSE p \in 1..Len(cascade) : cascade[p] = current_model_id
           above == { q \in (current_pos + 1)..Len(cascade) :
                        /\ get_model(cascade[q]) # None
                        /\ ~ModelSpec(cascade[q]).deprecated }
       IN IF above = {} THEN None
          ELSE cascade[CHOOSE q \in above : \A r \in above : q <= r]

\* ------------------------------------------------------------------------
\* Static configuration
\* ------------------------------------------------------------------------

\* the adapter map built in main()
Adapters == {"google", "anthropic", "openai", "groq", "deepseek", "perplexity"}

\* providers a caller may name: one with credentials, one with an adapter and
\* no credential, one without adapter
Providers == {"google", "openai", "mistral"}

\* the rows of the keys table in rowid order: id, provider, role
KEYS == << [id |-> "g1", provider |-> "google", role |-> "worker"],
           [id |-> "g2", provider |-> "google", role |-> "worker"] >>

KeyIds == { KEYS[i].id : i \in 1..Len(KEYS) }

KeyStatus == {"active", "rate_limited", "quarantined", "disabled"}

\* swarm.rs: maximum number of attempts per swarm task
MAX_RETRIES == 3

\* models a caller of generate / parallelGenerate asks for
ReqModels == {"gemini-3-pro-preview"}

\* what an adapter call can come back with: a response, an HTTP error
\* status, or a transport error of the HTTP client
Outcomes == {"ok", "429", "401", "net"}

\* the token counts of a successful response
Responses == { [input_tokens |-> 3, output_tokens |-> 5] }

\* the error body a provider sends with an HTTP status
ErrBody(code) ==
  CASE code = "429" -> "RESOURCE_EXHAUSTED"
    [] code = "401" -> "UNAUTHENTICATED"
    [] OTHER -> "INVALID_ARGUMENT"

\* e.to_string() of a failed adapter.generate: the text the adapter builds
\* with anyhow::bail!, or the HTTP client's own error text
ErrText(provider, code) ==
  IF code = "net" THEN "error sending request"
  ELSE CASE provider = "google"    -> "Google generate failed (" \o code \o "): " \o ErrBody(code)
         [] provider = "anthropic" -> "Anthropic generate failed (" \o code \o "): " \o ErrBody(code)
         [] provider = "openai"    -> "OpenAI failed (" \o code \o "): " \o ErrBody(code)
         [] provider = "groq"      -> "Groq failed: " \o ErrBody(code)
         [] provider = "deepseek"  -> "DeepSeek failed: " \o ErrBody(code)
         [] OTHER                  -> "Perplexity failed: " \o ErrBody(code)

\* the scheduler's rate-limit sniff on the error text
is_rate_limit(err_str) ==
  \/ Contains(err_str, "429")
  \/ Contains(err_str, "RESOURCE_EXHAUSTED")
  \/ Contains(err_str, "rate")

\* ------------------------------------------------------------------------
\* State
\* ------------------------------------------------------------------------

VARIABLES
  now,        \* the monotonic clock, in seconds (Instant::now)
  today,      \* current_day(): unix seconds / 86400
  status,     \* keys.status of every credential of the store
  usage_log,  \* the usage_log rows, grouped by the task that wrote them
  windows,    \* RateTracker.windows: (key_id, model_id) -> RateWindow
  counters,   \* PoolManager.counters: provider -> round-robin cursor
  task,       \* the scheduler tasks: position, locals, result
  scan,       \* the discovery poller
  vault,      \* the vault: the draws of the random generator, the blobs made
  calls,      \* the parallel and swarm calls: spawned handles, collected results
  hist,       \* history: the record() calls made, (key_id, model_id) -> instants
  ret,        \* history: the last call of an operation and what it returned
  db,         \* the tables of the store, as the store's own operations see them
  srv         \* the JSON-RPC server: AuthGuard, RateLimiter, connections

vars == << now, today, status, usage_log, windows, counters, task, scan, vault, calls, hist, ret, db, srv >>

\* the variables that only the specifications of single operations change
aux == << hist, ret, db, srv >>

Tasks == 1..NumTasks

\* ------------------------------------------------------------------------
\* Key store (vault/store.rs)
\* ------------------------------------------------------------------------

RECURSIVE SelectIds(_, _, _)
SelectIds(rows, st, provider) ==
  IF rows = <<>> THEN <<>>
  ELSE (IF /\ rows[1].provider = provider
           /\ st[rows[1].id] = "active"
           /\ rows[1].role # "orchestrator"
        THEN << rows[1].id >> ELSE <<>>) \o SelectIds(Tail(rows), st, provider)

\* SELECT id FROM keys WHERE provider = ?1 AND status = 'active'
\*   AND role != 'orchestrator'
get_active_keys(provider) == SelectIds(KEYS, status, provider)

\* a decrypt_key whose SELECT does not look at the status, which
\* C14_DecryptOnlyActive must tell from the code
decrypt_key_any(id) == id \in KeyIds

\* decrypt_key succeeds: the SELECT ... WHERE id = ?1 AND status = 'active'
\* returns a row
decrypt_key_ok(id) == id \in KeyIds /\ status[id] = "active"

\* UPDATE keys SET status = ?1 WHERE id = ?2
update_key_status(st, id, new) == IF id \in DOMAIN st THEN [st EXCEPT ![id] = new] ELSE st

\* a usage_log row
UsageRow(key_id, model, input_tokens, output_tokens, st) ==
  [key_id |-> key_id, model |-> model, input_tokens |-> input_tokens,
   output_tokens |-> output_tokens, status |-> st]

\* a usage log that keeps one row per task: the variant of record_usage
\* that C5_OneRowPerCall must tell from the code
record_usage_once(log, t, row) ==
  IF log[t] = <<>> THEN [log EXCEPT ![t] = Append(@, row)] ELSE log

\* INSERT INTO usage_log ...
record_usage(log, t, row) == [log EXCEPT ![t] = Append(@, row)]

\* ------------------------------------------------------------------------
\* Rate tracker (pool/rate_tracker.rs)
\* ------------------------------------------------------------------------

\* RateWindow::new
NewWindow == [minute_window |-> <<>>, daily_count |-> 0, daily_reset_day |-> today]

\* a pruning that also drops the instant that is exactly 60 seconds old,
\* which C13_RpmCountsLastMinute must tell from the code
RECURSIVE prune_minute_window_closed(_, _)
prune_minute_window_closed(q, t) ==
  IF q # <<>> /\ q[1] <= t - 60 THEN prune_minute_window_closed(Tail(q), t) ELSE q

\* prune_minute_window: pop from the front while front < now - 60
RECURSIVE prune_minute_window(_, _)
prune_minute_window(q, t) ==
  IF q # <<>> /\ q[1] < t - 60 THEN prune_minute_window(Tail(q), t) ELSE q

\* a rollover that moves the day on and keeps the count, which
\* C35_RpdCountsToday must tell from the code
RollDay_keep(w) ==
  IF today # w.daily_reset_day THEN [w EXCEPT !.daily_reset_day = today] ELSE w

\* the daily counter after the rollover test of record and current_rpd
RollDay(w) ==
  IF today # w.daily_reset_day
  THEN [w EXCEPT !.daily_count = 0, !.daily_reset_day = today] ELSE w

\* RateWindow::record
WindowRecord(w) ==
  LET p == [w EXCEPT !.minute_window = prune_minute_window(Append(w.minute_window, now), now)]
      r == RollDay(p)
  IN [r EXCEPT !.daily_count = @ + 1]

\* RateTracker::record_request: entry(key).or_insert_with(new).record()
record_request(ws, key_id, model_id) ==
  LET k == << key_id, model_id >>
      w == IF k \in DOMAIN ws THEN ws[k] ELSE NewWindow
  IN [x \in DOMAIN ws \cup {k} |-> IF x = k THEN WindowRecord(w) ELSE ws[x]]

\* RateTracker::check_capacity, on the tracker ws: (can_proceed, rpm, rpd)
check_capacity(ws, key_id, model_id, max_rpm, max_rpd) ==
  LET k == << key_id, model_id >> IN
  IF k \in DOMAIN ws
  THEN LET rpm == Len(prune_minute_window(ws[k].minute_window, now))
           rpd == RollDay(ws[k]).daily_count
       IN << rpm < max_rpm /\ rpd < max_rpd, rpm, rpd >>
  ELSE << TRUE, 0, 0 >>

\* the windows after the pruning check_capacity does on its way
CheckedWindows(ws, keys, model_id) ==
  [x \in DOMAIN ws |->
     IF x[2] = model_id /\ \E i \in 1..Len(keys) : keys[i] = x[1]
     THEN [RollDay(ws[x]) EXCEPT !.minute_window = prune_minute_window(@, now)]
     ELSE ws[x]]

\* RateTracker::least_loaded_key: the fold over keys, best = (index, rpm);
\* index 0 is None
RECURSIVE LeastLoadedFrom(_, _, _, _, _, _, _)
LeastLoadedFrom(ws, keys, model_id, max_rpm, max_rpd, i, best) ==
  IF i > Len(keys) THEN best
  ELSE LET c == check_capacity(ws, keys[i], model_id, max_rpm, max_rpd)
           nb == IF ~c[1] THEN best
                 ELSE IF best[1] = 0 THEN << i, c[2] >>
                 ELSE IF c[2] < best[2] THEN << i, c[2] >>
                 ELSE best
       IN LeastLoadedFrom(ws, keys, model_id, max_rpm, max_rpd, i + 1, nb)

least_loaded_key(ws, keys, model_id, max_rpm, max_rpd) ==
  LET best == LeastLoadedFrom(ws, keys, model_id, max_rpm, max_rpd, 1, << 0, 0 >>)
  IN IF best[1] = 0 THEN None ELSE keys[best[1]]

\* ------------------------------------------------------------------------
\* Initial state
\* ------------------------------------------------------------------------

IdleTask ==
  [kind |-> "idle", pc |-> "idle", call |-> 0, idx |-> 0, provider |-> None,
   model |-> None, active_keys |-> <<>>, attempt |-> 0, key_id |-> None,
   retries |-> 0, last_error |-> None, result |-> None, ok |-> FALSE,
   desc |-> 0, complexity |-> Medium, initial_model |-> None, log |-> <<>>]

\* a window holding n requests of the current minute and day
LoadedWindow(n) ==
  [minute_window |-> [i \in 1..n |-> 0], daily_count |-> n, daily_reset_day |-> 0]

\* the models whose windows the tracker may already have filled when the
\* modelled calls arrive
PreloadModels == {"gemini-3-pro-preview", "gemini-3-flash-preview"}

\* trackers left behind by earlier traffic: nothing recorded, or some
\* credentials with free_rpm requests of one model in the current minute
InitWindows ==
  { [x \in {} |-> NewWindow] } \cup
  { [x \in { << k, m >> : k \in S } |-> LoadedWindow(ModelSpec(m).free_rpm)] :
      S \in (SUBSET KeyIds) \ {{}}, m \in PreloadModels }

\* PoolManager::new: one cursor per provider that has a credential, at 0
NewCounters ==
  [p \in { KEYS[i].provider : i \in 1..Len(KEYS) } |-> 0]

NoScan ==
  [pc |-> "idle", runs |-> 0, keys |-> <<>>, i |-> 0, remote |-> <<>>, probes |-> <<>>,
   dec |-> None, aborted |-> FALSE]

\* no operation called yet
NoRet == [op |-> "none"]

\* the keys table holding KEYS, each added once; no probe, no usage row
NewDb ==
  [keys |-> [i \in 1..Len(KEYS) |->
               [id |-> KEYS[i].id, provider |-> KEYS[i].provider, role |-> KEYS[i].role,
                status |-> "active", notes |-> None, raw_value |-> "s1"]],
   probe_history |-> <<>>,
   usage_log |-> <<>>]

\* generate_token(): the tokens it returns, in the order of the calls
Tokens == << "t0", "t1", "t2" >>

\* atomic_write_token_file: the content of the file is the token and a line
\* end
token_file_of(token) == token \o "\n"

NumConns == 2
Conns == 1..NumConns

\* the caller identities of requests: params.caller, "anonymous" without it
Callers == {"anonymous", "client-2"}

\* a connection waiting for its next request line
IdleConn == [pc |-> "idle", method |-> None, auth |-> None, valid_for |-> None]

\* AuthGuard::bootstrap on a machine without a token, Server::new: the first
\* token, in the Keychain and in the token file; an empty rate limiter; no
\* request read yet. `generated` counts the calls of generate_token,
\* `replaced` is the token that the last rotation replaced, `up` tells
\* whether the daemon runs
NewServer ==
  [up |-> TRUE, token_hex |-> Tokens[1], keychain |-> Tokens[1],
   file |-> token_file_of(Tokens[1]), generated |-> 1, replaced |-> None,
   limiter |-> [caller \in Callers |-> <<>>],
   admitted |-> [caller \in Callers |-> <<>>],
   conn |-> [c \in Conns |-> IdleConn]]

\* no random bytes drawn, nothing encrypted
NewVault == [rng |-> 0, blobs |-> <<>>]

\* the frame of a parallel_generate_multi or swarm_generate call, named by
\* its first task slot: the number n of tasks submitted, the handles pushed
\* (the slots of the spawned tasks), the results collected; none yet
NoCall == [kind |-> "none", n |-> 0, handles |-> <<>>, results |-> <<>>, returned |-> FALSE]

AuxInit ==
  /\ vault = NewVault
  /\ calls = [c \in 1..NumTasks |-> NoCall]
  /\ hist = [x \in {} |-> <<>>]
  /\ ret = NoRet
  /\ db = NewDb
  /\ srv = NewServer

Init ==
  /\ now = 0
  /\ today = 0
  /\ status = [k \in KeyIds |-> "active"]
  /\ usage_log = [t \in Tasks |-> <<>>]
  /\ windows \in InitWindows
  /\ counters = NewCounters
  /\ task = [t \in Tasks |-> IdleTask]
  /\ scan = NoScan
  /\ AuxInit

\* ------------------------------------------------------------------------
\* Scheduler: shared pieces
\* ------------------------------------------------------------------------

\* the task slots a new call of n tasks takes: the first n idle ones
Idle(t) == task[t].pc = "idle"
FirstIdle == CHOOSE t \in Tasks : Idle(t) /\ \A u \in Tasks : Idle(u) => t <= u
FreeSlots == Cardinality({ t \in Tasks : Idle(t) })

\* a log entry: one iteration of a task's loop. adm and act are the
\* candidates the tracker admitted, and those active in the store, when
\* the iteration chose its credential; dec is the status the credential had
\* at the iteration's decrypt_key call; raw_key is the String decrypt_key
\* returned: live while the iteration holds it, dropped once it has gone out
\* of scope (the callers hold a plain String and never call zeroize on it)
LogEntry(model, key_id, ev, adm, act) ==
  [model |-> model, key_id |-> key_id, ev |-> ev, marked |-> FALSE,
   adm |-> adm, act |-> act,
   dec |-> IF key_id \in KeyIds THEN status[key_id] ELSE None,
   raw_key |-> IF ev \in {"inflight", "selected"} THEN "live" ELSE "none"]

SetLast(log, ev, marked) ==
  [log EXCEPT ![Len(log)] =
     [@ EXCEPT !.ev = ev, !.marked = marked,
               !.raw_key = IF ev = "inflight" THEN "live" ELSE "dropped"]]

\* an Err branch that never marks: the variant of MarkIfRateLimit that
\* C6_SingleFailover must tell from the code
MarkNever(st, key_id, err_str) == st

\* the Err branch shared by generate, parallel_generate_multi and
\* execute_with_failover: mark the credential when the sniff matches
MarkIfRateLimit(st, key_id, err_str) ==
  IF is_rate_limit(err_str) THEN update_key_status(st, key_id, "rate_limited") ELSE st

\* ------------------------------------------------------------------------
\* PoolManager::generate (generate_single)
\* ------------------------------------------------------------------------

\* entry: adapter lookup, get_active_keys, counter lookup
StartSingle(provider, model) ==
  /\ FreeSlots >= 1
  /\ LET t == FirstIdle
         active_keys == get_active_keys(provider)
         base == [IdleTask EXCEPT !.kind = "single", !.call = t, !.idx = 1,
                                  !.provider = provider, !.model = model]
     IN task' = [task EXCEPT ![t] =
          IF provider \notin Adapters
            THEN [base EXCEPT !.pc = "done", !.result = "NoAdapter"]
          ELSE IF active_keys = <<>>
            THEN [base EXCEPT !.pc = "done", !.result = "NoCredentials"]
          ELSE IF provider \notin DOMAIN counters
            THEN [base EXCEPT !.pc = "done", !.result = "NoCounter"]
          ELSE [base EXCEPT !.pc = "attempt", !.active_keys = active_keys]]
  /\ UNCHANGED << now, today, status, usage_log, windows, counters, scan, vault, calls, hist, ret, db >>

\* a loop that retries without counting its attempts: the variant of
\* SingleContinue that C7_SingleTerminates must tell from the code
SingleContinueUncounted(r) == [r EXCEPT !.pc = "attempt"]

\* a loop that gives up at the first failed iteration: the variant of
\* SingleContinue that C8_SingleErrorContinues must tell from the code
SingleContinueStop(r) ==
  [r EXCEPT !.attempt = @ + 1, !.pc = "done", !.result = "Exhausted"]

\* the end of one iteration of `for attempt in 0..total`: the next one, or
\* the bail! after the loop
SingleContinue(r) ==
  IF r.attempt + 1 >= Len(r.active_keys)
  THEN [r EXCEPT !.attempt = @ + 1, !.pc = "done", !.result = "Exhausted"]
  ELSE [r EXCEPT !.attempt = @ + 1, !.pc = "attempt"]

\* one iteration up to the adapter call: advance the cursor, decrypt,
\* pre-register in the rate tracker
SingleDispatch(t) ==
  /\ task[t].kind = "single" /\ task[t].pc = "attempt"
  /\ LET r == task[t]
         total == Len(r.active_keys)
         idx == counters[r.provider] % total
         key_id == r.active_keys[idx + 1]
     IN /\ counters' = [counters EXCEPT ![r.provider] = @ + 1]
        /\ IF decrypt_key_ok(key_id)
           THEN /\ windows' = record_request(windows, key_id, r.model)
                /\ task' = [task EXCEPT ![t] =
                      [r EXCEPT !.pc = "call", !.key_id = key_id,
                                !.log = Append(@, LogEntry(r.model, key_id, "inflight", {}, {}))]]
           ELSE /\ windows' = windows
                /\ task' = [task EXCEPT ![t] =
                      SingleContinue([r EXCEPT !.key_id = key_id,
                        !.log = Append(@, LogEntry(r.model, key_id, "nodecrypt", {}, {}))])]
  /\ UNCHANGED << now, today, status, usage_log, scan, vault, calls, aux >>

\* the adapter call returns: Ok(resp) or Err(e)
SingleResponse(t) ==
  /\ task[t].kind = "single" /\ task[t].pc = "call"
  /\ \E out \in Outcomes :
       LET r == task[t] IN
       IF out = "ok"
       THEN \E resp \in Responses :
              /\ usage_log' = record_usage(usage_log, t,
                     UsageRow(r.key_id, r.model, resp.input_tokens, resp.output_tokens, "success"))
              /\ status' = status
              /\ task' = [task EXCEPT ![t] =
                    [r EXCEPT !.pc = "done", !.result = "Ok", !.ok = TRUE,
                              !.log = SetLast(@, "ok", FALSE)]]
       ELSE LET err_str == ErrText(r.provider, out) IN
              /\ status' = MarkIfRateLimit(status, r.key_id, err_str)
              /\ usage_log' = record_usage(usage_log, t, UsageRow(r.key_id, r.model, 0, 0, "error"))
              /\ task' = [task EXCEPT ![t] =
                    SingleContinue([r EXCEPT !.last_error = out,
                                             !.log = SetLast(@, out, is_rate_limit(err_str))])]
  /\ UNCHANGED << now, today, windows, counters, scan, vault, calls, aux >>

SingleNext ==
  \/ \E provider \in Providers, model \in ReqModels :
       StartSingle(provider, model) /\ UNCHANGED srv
  \/ \E t \in Tasks : SingleDispatch(t)
  \/ \E t \in Tasks : SingleResponse(t)

\* ------------------------------------------------------------------------
\* PoolManager::parallel_generate_multi (generate_parallel)
\* ------------------------------------------------------------------------

\* the requests a caller submits in one parallelGenerate: (provider, model)
ParallelRequests(n) == [1..n -> Providers \X ReqModels]

\* entry: pre-fetch the active keys of every provider named
StartParallel(reqs) ==
  /\ Len(reqs) >= 1 /\ FreeSlots >= Len(reqs)
  /\ LET c == FirstIdle IN
     task' = [t \in Tasks |->
       IF t >= c /\ t < c + Len(reqs)
       THEN [IdleTask EXCEPT !.kind = "parallel", !.pc = "assign", !.call = c,
                             !.idx = t - c + 1,
                             !.provider = reqs[t - c + 1][1],
                             !.model = reqs[t - c + 1][2],
                             !.active_keys = get_active_keys(reqs[t - c + 1][1])]
       ELSE task[t]]
  /\ calls' = [calls EXCEPT ![FirstIdle] = [NoCall EXCEPT !.kind = "parallel", !.n = Len(reqs)]]
  /\ UNCHANGED << now, today, status, usage_log, windows, counters, scan, vault, hist, ret, db >>

\* a counter that starts from the shared round-robin cursor of generate,
\* which C29_ParallelRoundRobin must tell from the code
ProviderCounter_cursor(t) ==
  (IF task[t].provider \in DOMAIN counters THEN counters[task[t].provider] ELSE 0)
  + Cardinality({ u \in Tasks : /\ task[u].kind = "parallel"
                                 /\ task[u].call = task[t].call
                                 /\ u < t
                                 /\ task[u].provider = task[t].provider })

\* provider_counters[provider] when the loop reaches task t: the earlier
\* requests of the call for the same provider
ProviderCounter(t) ==
  Cardinality({ u \in Tasks : /\ task[u].kind = "parallel"
                               /\ task[u].call = task[t].call
                               /\ u < t
                               /\ task[u].provider = task[t].provider })

\* one iteration of the spawn loop: pick the key round-robin, decrypt, spawn
ParallelAssign(t) ==
  /\ task[t].kind = "parallel" /\ task[t].pc = "assign"
  /\ \A u \in Tasks : (task[u].kind = "parallel" /\ task[u].call = task[t].call /\ u < t)
                         => task[u].pc # "assign"
  /\ LET r == task[t]
         keys == r.active_keys
     IN task' = [task EXCEPT ![t] =
          IF keys = <<>>
            THEN [r EXCEPT !.pc = "done", !.result = "NoCredentials"]
          ELSE LET key_id == keys[(ProviderCounter(t) % Len(keys)) + 1] IN
               IF ~decrypt_key_ok(key_id)
                 THEN [r EXCEPT !.pc = "done", !.result = "DecryptFailed", !.key_id = key_id,
                         !.log = Append(@, LogEntry(r.model, key_id, "nodecrypt", {}, {}))]
               ELSE IF r.provider \notin Adapters
                 THEN [r EXCEPT !.pc = "done", !.result = "NoAdapter", !.key_id = key_id]
               ELSE [r EXCEPT !.pc = "call", !.key_id = key_id,
                       !.log = Append(@, LogEntry(r.model, key_id, "inflight", {}, {}))]]
  /\ calls' = [calls EXCEPT ![task[t].call].handles = Append(@, t)]
  /\ UNCHANGED << now, today, status, usage_log, windows, counters, scan, vault, aux >>

\* the spawned task: the adapter call returns
ParallelResponse(t) ==
  /\ task[t].kind = "parallel" /\ task[t].pc = "call"
  /\ \E out \in Outcomes :
       LET r == task[t] IN
       IF out = "ok"
       THEN \E resp \in Responses :
              /\ usage_log' = record_usage(usage_log, t,
                     UsageRow(r.key_id, r.model, resp.input_tokens, resp.output_tokens, "success"))
              /\ status' = status
              /\ task' = [task EXCEPT ![t] =
                    [r EXCEPT !.pc = "done", !.result = "Ok", !.ok = TRUE,
                              !.log = SetLast(@, "ok", FALSE)]]
       ELSE LET err_str == ErrText(r.provider, out) IN
              /\ status' = MarkIfRateLimit(status, r.key_id, err_str)
              /\ usage_log' = record_usage(usage_log, t, UsageRow(r.key_id, r.model, 0, 0, "error"))
              /\ task' = [task EXCEPT ![t] =
                    [r EXCEPT !.pc = "done", !.result = "GenerateFailed", !.last_error = out,
                              !.log = SetLast(@, out, is_rate_limit(err_str))]]
  /\ UNCHANGED << now, today, windows, counters, scan, vault, calls, aux >>

ParallelNext ==
  \/ \E n \in 1..NumTasks : \E reqs \in ParallelRequests(n) :
       StartParallel(reqs) /\ UNCHANGED srv
  \/ \E t \in Tasks : ParallelAssign(t)
  \/ \E t \in Tasks : ParallelResponse(t)

\* ------------------------------------------------------------------------
\* swarm_generate / execute_with_failover (generate_swarm)
\* ------------------------------------------------------------------------

\* the swarm tasks a caller submits: prompt, complexity hint, model override
\* (hint -1 and model "none" when absent)
SwarmTasks == <<
  [prompt |-> "implement a thread-safe connection pool with async support",
   complexity |-> -1, model |-> None],
  [prompt |-> "refactor the module to use a service pattern",
   complexity |-> -1, model |-> None],
  [prompt |-> "rename the variable foo to bar",
   complexity |-> Expert, model |-> "gemini-2.5-pro"] >>

\* task.complexity.unwrap_or_else(|| classify(&task.prompt))
TaskComplexityOf(d) ==
  IF SwarmTasks[d].complexity # -1 THEN SwarmTasks[d].complexity
  ELSE classify(SwarmTasks[d].prompt)

\* the starting model: the override when the registry knows it, else
\* select_model(complexity)
TaskModelOf(d) ==
  IF SwarmTasks[d].model # None
  THEN OrElse(get_model(SwarmTasks[d].model), select_model(TaskComplexityOf(d)))
  ELSE select_model(TaskComplexityOf(d))

\* entry: load the active keys of provider "google", classify and spawn
StartSwarm(ds) ==
  /\ Len(ds) >= 1 /\ FreeSlots >= Len(ds)
  /\ LET c == FirstIdle
         active_keys == get_active_keys("google")
     IN task' = [t \in Tasks |->
       IF t >= c /\ t < c + Len(ds)
       THEN LET d == ds[t - c + 1]
                base == [IdleTask EXCEPT !.kind = "swarm", !.call = c, !.idx = t - c + 1,
                                         !.provider = "google", !.desc = d]
            IN IF active_keys = <<>>
               THEN [base EXCEPT !.pc = "done", !.result = "NoCredentials",
                       !.complexity = IF SwarmTasks[d].complexity # -1
                                      THEN SwarmTasks[d].complexity ELSE Medium]
               ELSE [base EXCEPT !.pc = "select", !.active_keys = active_keys,
                       !.complexity = TaskComplexityOf(d),
                       !.model = TaskModelOf(d), !.initial_model = TaskModelOf(d)]
       ELSE task[t]]
  /\ calls' = [calls EXCEPT ![FirstIdle] =
        IF get_active_keys("google") = <<>>
        THEN [kind |-> "swarm", n |-> Len(ds), handles |-> <<>>,
              results |-> [i \in 1..Len(ds) |->
                             [label |-> i, ok |-> FALSE, result |-> "NoCredentials"]],
              returned |-> TRUE]
        ELSE [NoCall EXCEPT !.kind = "swarm", !.n = Len(ds),
                            !.handles = [i \in 1..Len(ds) |-> FirstIdle + i - 1]]]
  /\ UNCHANGED << now, today, status, usage_log, windows, counters, scan, vault, hist, ret, db >>

\* select_key: the least-loaded key, if the store decrypts it
select_key(keys, model, ws) ==
  LET key_id == least_loaded_key(ws, keys, model, ModelSpec(model).free_rpm,
                                 ModelSpec(model).free_rpd)
  IN IF key_id # None /\ decrypt_key_ok(key_id) THEN key_id ELSE None

\* the candidates check_capacity admits for the model, and those active
AdmittedKeys(keys, model) ==
  { keys[i] : i \in { j \in 1..Len(keys) :
      check_capacity(windows, keys[j], model, ModelSpec(model).free_rpm,
                     ModelSpec(model).free_rpd)[1] } }

ActiveAmong(keys) == { keys[i] : i \in { j \in 1..Len(keys) : status[keys[j]] = "active" } }

\* a loop that allows one iteration more, which C30_SwarmBounded must tell
\* from the code
SwarmContinue_extra(r) ==
  IF r.attempt + 1 >= MAX_RETRIES + 1
  THEN [r EXCEPT !.attempt = @ + 1, !.pc = "done", !.result = "Exhausted", !.key_id = "exhausted"]
  ELSE [r EXCEPT !.attempt = @ + 1, !.pc = "select"]

\* the end of one iteration of `for _attempt in 0..MAX_RETRIES` that ended
\* in `continue`: the next one, or the result after the loop
SwarmContinue(r) ==
  IF r.attempt + 1 >= MAX_RETRIES
  THEN [r EXCEPT !.attempt = @ + 1, !.pc = "done", !.result = "Exhausted", !.key_id = "exhausted"]
  ELSE [r EXCEPT !.attempt = @ + 1, !.pc = "select"]

\* the head of one iteration: select_key, and the cascade when it is None
SwarmSelect(t) ==
  /\ task[t].kind = "swarm" /\ task[t].pc = "select"
  /\ LET r == task[t]
         key_id == select_key(r.active_keys, r.model, windows)
         adm == AdmittedKeys(r.active_keys, r.model)
         act == ActiveAmong(r.active_keys)
         fallback == fallback_model(r.model)
     IN /\ windows' = CheckedWindows(windows, r.active_keys, r.model)
        /\ task' = [task EXCEPT ![t] =
             IF key_id # None
               THEN [r EXCEPT !.pc = "record", !.key_id = key_id,
                       !.log = Append(@, LogEntry(r.model, key_id, "selected", adm, act))]
             ELSE IF fallback # None
               THEN SwarmContinue([r EXCEPT !.model = fallback, !.retries = @ + 1,
                       !.last_error = "cascade",
                       !.log = Append(@, LogEntry(r.model, None, "cascade", adm, act))])
             ELSE [r EXCEPT !.pc = "done", !.result = "NoFallback", !.key_id = None,
                     !.log = Append(@, LogEntry(r.model, None, "nofallback", adm, act))]]
  /\ UNCHANGED << now, today, status, usage_log, counters, scan, vault, calls, aux >>

\* record the attempt in the tracker, build the request, look up the adapter
SwarmRecord(t) ==
  /\ task[t].kind = "swarm" /\ task[t].pc = "record"
  /\ LET r == task[t] IN
       /\ windows' = record_request(windows, r.key_id, r.model)
       /\ task' = [task EXCEPT ![t] =
            IF ModelSpec(r.model).provider \notin Adapters
              THEN [r EXCEPT !.pc = "done", !.result = "NoAdapter",
                             !.log = SetLast(@, "noadapter", FALSE)]
            ELSE [r EXCEPT !.pc = "call", !.log = SetLast(@, "inflight", FALSE)]]
  /\ UNCHANGED << now, today, status, usage_log, counters, scan, vault, calls, aux >>

\* the adapter call returns
SwarmResponse(t) ==
  /\ task[t].kind = "swarm" /\ task[t].pc = "call"
  /\ \E out \in Outcomes :
       LET r == task[t] IN
       IF out = "ok"
       THEN \E resp \in Responses :
              /\ usage_log' = record_usage(usage_log, t,
                     UsageRow(r.key_id, r.model, resp.input_tokens, resp.output_tokens, "success"))
              /\ status' = status
              /\ task' = [task EXCEPT ![t] =
                    [r EXCEPT !.pc = "done", !.result = "Ok", !.ok = TRUE,
                              !.log = SetLast(@, "ok", FALSE)]]
       ELSE LET err_str == ErrText(ModelSpec(r.model).provider, out) IN
              /\ usage_log' = record_usage(usage_log, t, UsageRow(r.key_id, r.model, 0, 0, "error"))
              /\ status' = MarkIfRateLimit(status, r.key_id, err_str)
              /\ task' = [task EXCEPT ![t] =
                    IF is_rate_limit(err_str)
                    THEN SwarmContinue([r EXCEPT !.last_error = out, !.retries = @ + 1,
                                                 !.log = SetLast(@, out, TRUE)])
                    ELSE [r EXCEPT !.pc = "done", !.result = "GenerateFailed",
                                   !.last_error = out, !.log = SetLast(@, out, FALSE)]]
  /\ UNCHANGED << now, today, windows, counters, scan, vault, calls, aux >>

SwarmNext ==
  \/ \E n \in 1..NumTasks : \E ds \in [1..n -> 1..Len(SwarmTasks)] :
       StartSwarm(ds) /\ UNCHANGED srv
  \/ \E t \in Tasks : SwarmSelect(t)
  \/ \E t \in Tasks : SwarmRecord(t)
  \/ \E t \in Tasks : SwarmResponse(t)

Next == SingleNext \/ ParallelNext \/ SwarmNext

Spec == Init /\ [][Next]_vars

\* ------------------------------------------------------------------------
\* Discovery poller (discovery/poller.rs)
\* ------------------------------------------------------------------------

\* what a provider answers to check_health for a credential: KeyHealth.valid
\* and quota_remaining_pct (-1 for None)
HealthOutcomes == { [valid |-> FALSE, pct |-> -1], [valid |-> FALSE, pct |-> 0],
                    [valid |-> TRUE,  pct |-> 0],  [valid |-> TRUE,  pct |-> 100] }

\* store.list_keys(): the rows with the status they have now
list_keys == [i \in 1..Len(KEYS) |->
               [id |-> KEYS[i].id, provider |-> KEYS[i].provider, status |-> status[KEYS[i].id]]]

\* the end of one iteration of `for key_entry in &keys`
ScanAdvance(sc) ==
  IF sc.i + 1 > Len(sc.keys)
  THEN [sc EXCEPT !.i = @ + 1, !.pc = "done", !.runs = @ + 1]
  ELSE [sc EXCEPT !.i = @ + 1, !.pc = "decrypt"]

\* run_full_scan starts: list the keys. remote is the health the provider
\* reports for each credential during this scan
ScanStart ==
  /\ scan.pc \in {"idle", "done"} /\ scan.runs < MaxScans
  /\ \E remote \in [KeyIds -> HealthOutcomes] :
       scan' = IF list_keys = <<>>
               THEN [scan EXCEPT !.pc = "done", !.runs = @ + 1, !.keys = <<>>, !.i = 1,
                                 !.remote = remote, !.probes = <<>>]
               ELSE [scan EXCEPT !.pc = "decrypt", !.keys = list_keys, !.i = 1,
                                 !.remote = remote, !.probes = <<>>]
  /\ UNCHANGED << now, today, status, usage_log, windows, counters, task, vault, calls, aux >>

\* the head of one iteration: adapter lookup and decrypt_key, each of which
\* skips the credential when it fails
ScanDecrypt ==
  /\ scan.pc = "decrypt"
  /\ LET key_entry == scan.keys[scan.i] IN
       scan' = IF key_entry.provider \in Adapters /\ decrypt_key_ok(key_entry.id)
               THEN [scan EXCEPT !.pc = "probe", !.dec = status[key_entry.id]]
               ELSE ScanAdvance(scan)
  /\ UNCHANGED << now, today, status, usage_log, windows, counters, task, vault, calls, aux >>

\* what adapter.list_models answers: a list of models, or an error that the
\* scan turns into the empty list
ListOutcomes == {"models", "err"}

\* a status update without the quota branch, which C34_ProbeThenStatus
\* must tell from the code
ScanStatus_noquota(st, key_entry, health) ==
  IF ~health.valid THEN update_key_status(st, key_entry.id, "quarantined")
  ELSE IF key_entry.status = "rate_limited" THEN update_key_status(st, key_entry.id, "active")
  ELSE st

\* the status update of step 4
ScanStatus(st, key_entry, health) ==
  IF ~health.valid THEN update_key_status(st, key_entry.id, "quarantined")
  ELSE IF health.pct = 0 THEN update_key_status(st, key_entry.id, "rate_limited")
  ELSE IF key_entry.status = "rate_limited" THEN update_key_status(st, key_entry.id, "active")
  ELSE st

\* list_models and check_health have answered: record the probe, update the
\* status
ScanProbe ==
  /\ scan.pc = "probe"
  /\ \E listed \in ListOutcomes :
       LET key_entry == scan.keys[scan.i]
           health == scan.remote[key_entry.id]
       IN /\ status' = ScanStatus(status, key_entry, health)
          /\ scan' = ScanAdvance([scan EXCEPT !.probes =
                        Append(@, [key_id |-> key_entry.id, valid |-> health.valid,
                                   pct |-> health.pct, dec |-> scan.dec,
                                   listed |-> listed, raw_key |-> "dropped"])])
  /\ UNCHANGED << now, today, usage_log, windows, counters, task, vault, calls, aux >>

DiscNext == ScanStart \/ ScanDecrypt \/ ScanProbe

\* the statuses credentials can have when a scan starts: those the
\* scheduler and earlier scans write (no code path writes disabled)
InitDisc ==
  /\ now = 0
  /\ today = 0
  /\ status \in [KeyIds -> KeyStatus \ {"disabled"}]
  /\ usage_log = [t \in Tasks |-> <<>>]
  /\ windows = [x \in {} |-> NewWindow]
  /\ counters = NewCounters
  /\ task = [t \in Tasks |-> IdleTask]
  /\ scan = NoScan
  /\ AuxInit

\* the poller alone
SpecDisc == InitDisc /\ [][DiscNext]_vars

\* the status that stands for a row deleted from the keys table
Removed == "removed"

\* kv.admin.removeKey while a scan is running: the delete goes through for
\* a credential that no probe row references yet
AdminRemove(k) ==
  /\ scan.pc \in {"decrypt", "probe"}
  /\ status[k] # Removed
  /\ \A i \in 1..Len(scan.probes) : scan.probes[i].key_id # k
  /\ status' = [status EXCEPT ![k] = Removed]
  /\ UNCHANGED << now, today, usage_log, windows, counters, task, scan, vault, calls, aux >>

\* the probe of a credential that is still in the store
ScanProbePresent ==
  /\ scan.pc = "probe"
  /\ status[scan.keys[scan.i].id] # Removed
  /\ ScanProbe

\* `?` on record_probe or update_key_status: run_full_scan returns the error
ScanAbort(sc) == [sc EXCEPT !.pc = "done", !.runs = @ + 1, !.aborted = TRUE]

\* list_models and check_health have answered and a store call fails: the
\* insert of the probe row (always, when the credential's row is gone: the
\* foreign key), or the status update after it
ScanProbeFails ==
  /\ scan.pc = "probe"
  /\ LET key_entry == scan.keys[scan.i]
         health == scan.remote[key_entry.id]
     IN \E stage \in {"record_probe", "update_key_status"}, listed \in ListOutcomes :
          /\ stage = "update_key_status" =>
                /\ status[key_entry.id] # Removed
                /\ (~health.valid \/ health.pct = 0 \/ key_entry.status = "rate_limited")
          /\ scan' = ScanAbort([scan EXCEPT !.probes =
                        IF stage = "record_probe" THEN @
                        ELSE Append(@, [key_id |-> key_entry.id, valid |-> health.valid,
                                        pct |-> health.pct, dec |-> scan.dec,
                                        listed |-> listed, raw_key |-> "dropped"])])
  /\ UNCHANGED << now, today, status, usage_log, windows, counters, task, vault, calls, aux >>

DiscAdminNext ==
  \/ ScanStart
  \/ ScanDecrypt
  \/ ScanProbePresent
  \/ ScanProbeFails
  \/ \E k \in KeyIds : AdminRemove(k)

\* the poller next to an admin who removes credentials, on a store whose
\* writes can fail
SpecDiscAdmin == InitDisc /\ [][DiscAdminNext]_vars

\* the poller next to generate calls
SpecDiscSched == InitDisc /\ [][DiscNext \/ SingleNext]_vars

\* the state after construction: RateTracker::new holds no window
InitFresh == Init /\ windows = [x \in {} |-> NewWindow]

\* the step leaves every task slot but the first idle
OneTask == \A t \in Tasks : task'[t].kind # "idle" => t = 1

\* the steps of the tasks that have started
TaskSteps ==
  \E t \in Tasks :
    \/ SingleDispatch(t) \/ SingleResponse(t)
    \/ ParallelAssign(t) \/ ParallelResponse(t)
    \/ SwarmSelect(t) \/ SwarmRecord(t) \/ SwarmResponse(t)

\* one call with one task: its entry, then its steps
OneTaskNext ==
  \/ task[1].kind = "idle" /\ Next /\ OneTask
  \/ task[1].kind # "idle" /\ TaskSteps

\* the poller next to one task of any entry point of the scheduler
SpecAll == InitFresh /\ [][OneTaskNext \/ DiscNext]_vars

\* concurrent generate calls alone, which never read the tracker
SpecSingle == InitFresh /\ [][SingleNext]_vars

\* concurrent generate calls when every started step is eventually taken:
\* the runtime polls each task, and each adapter call returns
FairSingle ==
  /\ SpecSingle
  /\ \A t \in Tasks : WF_vars(SingleDispatch(t)) /\ WF_vars(SingleResponse(t))

\* ------------------------------------------------------------------------
\* The rate tracker on its own: its four operations under a moving clock
\* ------------------------------------------------------------------------

MaxClock == 121
MaxDay == 1
MaxRecords == 3

\* the clock advances by a minute, or a second more
TickSteps == {60, 61}

TrackerModels == {"gemini-2.5-pro", "gemini-2.0-flash"}
RpmLimits == {0, 2}
RpdLimits == {0, 2}
KeyLists == { << "g1", "g2" >>, << "g2", "g1" >> }

HistOf(key_id, model_id) ==
  IF << key_id, model_id >> \in DOMAIN hist THEN hist[<< key_id, model_id >>] ELSE <<>>

\* the (key_id, model_id) pairs that calls are recorded for
TrackerPairs ==
  << << "g1", "gemini-2.5-pro" >>, << "g2", "gemini-2.5-pro" >>,
     << "g1", "gemini-2.0-flash" >> >>

HistLen ==
  SumSeq([i \in 1..Len(TrackerPairs) |-> Len(HistOf(TrackerPairs[i][1], TrackerPairs[i][2]))])

InitTracker ==
  /\ Init
  /\ windows = [x \in {} |-> NewWindow]

\* Instant::now() and current_day() move on between two calls: a minute
\* passes, or a second more, and midnight may fall within it
Tick ==
  /\ \E d \in TickSteps : now + d <= MaxClock /\ now' = now + d
  /\ \E n \in {0, 1} : today + n <= MaxDay /\ today' = today + n
  /\ ret' = NoRet
  /\ UNCHANGED << status, usage_log, windows, counters, task, scan, vault, calls, hist, db, srv >>

\* tracker.record_request(key_id, model_id)
TrackerRecord ==
  /\ HistLen < MaxRecords
  /\ \E i \in 1..Len(TrackerPairs) :
       LET key_id == TrackerPairs[i][1]
           model_id == TrackerPairs[i][2] IN
       /\ windows' = record_request(windows, key_id, model_id)
       /\ hist' = [x \in DOMAIN hist \cup {<< key_id, model_id >>} |->
                     IF x = << key_id, model_id >>
                     THEN Append(HistOf(key_id, model_id), [at |-> now, day |-> today])
                     ELSE hist[x]]
       /\ ret' = [op |-> "record", key_id |-> key_id, model_id |-> model_id]
  /\ UNCHANGED << now, today, status, usage_log, counters, task, scan, vault, calls, db, srv >>

\* tracker.check_capacity(key_id, model_id, max_rpm, max_rpd)
TrackerCheck ==
  /\ \E key_id \in KeyIds, model_id \in TrackerModels,
        max_rpm \in RpmLimits, max_rpd \in RpdLimits :
       LET c == check_capacity(windows, key_id, model_id, max_rpm, max_rpd) IN
       /\ windows' = CheckedWindows(windows, << key_id >>, model_id)
       /\ ret' = [op |-> "check", key_id |-> key_id, model_id |-> model_id,
                  max_rpm |-> max_rpm, max_rpd |-> max_rpd,
                  can_proceed |-> c[1], rpm |-> c[2], rpd |-> c[3]]
  /\ UNCHANGED << now, today, status, usage_log, counters, task, scan, vault, calls, hist, db, srv >>

\* tracker.least_loaded_key(keys, model_id, max_rpm, max_rpd)
TrackerLeastLoaded ==
  /\ \E keys \in KeyLists, model_id \in TrackerModels,
        max_rpm \in RpmLimits, max_rpd \in RpdLimits :
       /\ windows' = CheckedWindows(windows, keys, model_id)
       /\ ret' = [op |-> "least_loaded", keys |-> keys, model_id |-> model_id,
                  max_rpm |-> max_rpm, max_rpd |-> max_rpd,
                  key |-> least_loaded_key(windows, keys, model_id, max_rpm, max_rpd)]
  /\ UNCHANGED << now, today, status, usage_log, counters, task, scan, vault, calls, hist, db, srv >>

\* tracker.snapshot(): current_rpm and current_rpd of every window
snapshot(ws) ==
  { [key_id |-> x[1], model_id |-> x[2],
     current_rpm |-> Len(prune_minute_window(ws[x].minute_window, now)),
     current_rpd |-> RollDay(ws[x]).daily_count] : x \in DOMAIN ws }

TrackerSnapshot ==
  /\ windows' = [x \in DOMAIN windows |->
                   [RollDay(windows[x]) EXCEPT
                      !.minute_window = prune_minute_window(@, now)]]
  /\ ret' = [op |-> "snapshot", rows |-> snapshot(windows)]
  /\ UNCHANGED << now, today, status, usage_log, counters, task, scan, vault, calls, hist, db, srv >>

TrackerNext ==
  \/ Tick
  \/ TrackerRecord
  \/ TrackerCheck
  \/ TrackerLeastLoaded
  \/ TrackerSnapshot

SpecTracker == InitTracker /\ [][TrackerNext]_vars

\* ------------------------------------------------------------------------
\* The store on its own: the operations of KeyStore on its tables
\* ------------------------------------------------------------------------

MaxProbes == 1
MaxUsage == 1

KeyRole == {"orchestrator", "worker", "spare"}

\* what add_key is called with, beside the id
AddInputs ==
  { [provider |-> "google", role |-> "worker", notes |-> None, raw_value |-> "s1"],
    [provider |-> "google", role |-> "spare", notes |-> "n", raw_value |-> "s2"],
    [provider |-> "google", role |-> "orchestrator", notes |-> None, raw_value |-> "s2"],
    [provider |-> "openai", role |-> "worker", notes |-> "n", raw_value |-> "s1"] }

RowIds(rows) == { rows[i].id : i \in 1..Len(rows) }
RowOf(rows, id) == rows[CHOOSE i \in 1..Len(rows) : rows[i].id = id]
StatusOf(rows) == [id \in RowIds(rows) |-> RowOf(rows, id).status]

\* the rows of probe_history that reference keys(id)
ProbesOf(d, id) == { i \in 1..Len(d.probe_history) : d.probe_history[i] = id }

\* DELETE FROM keys WHERE id = ?1, as part of a statement
DeleteRow(rows, id) ==
  LET Other(r) == r.id # id IN SelectSeq(rows, Other)

\* an INSERT that keeps the status of the row it replaces, which
\* C19_AddUpserts must tell from the code
add_key_keep_status(d, id, provider, raw_value, role, notes) ==
  [d EXCEPT !.keys = Append(DeleteRow(@, id),
     [id |-> id, provider |-> provider, role |-> role,
      status |-> IF id \in RowIds(d.keys) THEN RowOf(d.keys, id).status ELSE "active",
      notes |-> notes, raw_value |-> raw_value])]

\* add_key: INSERT OR REPLACE INTO keys ... VALUES (.., 'active', ..). The
\* replaced row is deleted and the new one inserted in one statement, so the
\* rows of probe_history that reference the id have a parent at its end
add_key(d, id, provider, raw_value, role, notes) ==
  [d EXCEPT !.keys = Append(DeleteRow(@, id),
     [id |-> id, provider |-> provider, role |-> role, status |-> "active",
      notes |-> notes, raw_value |-> raw_value])]

\* remove_key: DELETE FROM keys WHERE id = ?1 with foreign_keys = ON; the
\* statement fails while a row of probe_history references the key
remove_key(d, id) ==
  IF id \notin RowIds(d.keys) THEN [db |-> d, result |-> "false"]
  ELSE IF ProbesOf(d, id) # {} THEN [db |-> d, result |-> "err"]
  ELSE [db |-> [d EXCEPT !.keys = DeleteRow(@, id)], result |-> "true"]

\* decrypt_key: the plaintext of the row, if it is there and active
decrypt_key(rows, id) ==
  IF id \in RowIds(rows) /\ RowOf(rows, id).status = "active"
  THEN RowOf(rows, id).raw_value ELSE "err"

\* get_active_keys on the rows of the table
active_keys_in(rows, provider) == SelectIds(rows, StatusOf(rows), provider)

\* UPDATE keys SET status = ?1 WHERE id = ?2
set_status(rows, id, new) ==
  [i \in 1..Len(rows) |-> IF rows[i].id = id THEN [rows[i] EXCEPT !.status = new] ELSE rows[i]]

\* record_probe: INSERT INTO probe_history, which needs its parent row
record_probe(d, key_id) ==
  IF key_id \in RowIds(d.keys)
  THEN [db |-> [d EXCEPT !.probe_history = Append(@, key_id)], result |-> "ok"]
  ELSE [db |-> d, result |-> "err"]

StoreUnchanged ==
  UNCHANGED << now, today, status, usage_log, windows, counters, task, scan, vault, calls, hist, srv >>

StoreAdd ==
  /\ \E id \in KeyIds, a \in AddInputs :
       /\ db' = add_key(db, id, a.provider, a.raw_value, a.role, a.notes)
       /\ ret' = [op |-> "add", id |-> id, provider |-> a.provider, role |-> a.role,
                  notes |-> a.notes, raw_value |-> a.raw_value, before |-> db]
  /\ StoreUnchanged

StoreRemove ==
  /\ \E id \in KeyIds :
       /\ db' = remove_key(db, id).db
       /\ ret' = [op |-> "remove", id |-> id, result |-> remove_key(db, id).result,
                  before |-> db]
  /\ StoreUnchanged

StoreDecrypt ==
  /\ \E id \in KeyIds :
       ret' = [op |-> "decrypt", id |-> id, result |-> decrypt_key(db.keys, id)]
  /\ db' = db
  /\ StoreUnchanged

StoreUpdateStatus ==
  /\ \E id \in KeyIds, new \in KeyStatus :
       /\ db' = [db EXCEPT !.keys = set_status(@, id, new)]
       /\ ret' = [op |-> "update_key_status", id |-> id, new |-> new]
  /\ StoreUnchanged

StoreRecordProbe ==
  /\ Len(db.probe_history) < MaxProbes
  /\ \E key_id \in KeyIds :
       /\ db' = record_probe(db, key_id).db
       /\ ret' = [op |-> "record_probe", id |-> key_id, result |-> record_probe(db, key_id).result]
  /\ StoreUnchanged

\* record_usage: INSERT INTO usage_log, which has no foreign key
StoreRecordUsage ==
  /\ Len(db.usage_log) < MaxUsage
  /\ \E key_id \in KeyIds :
       /\ db' = [db EXCEPT !.usage_log = Append(@, key_id)]
       /\ ret' = [op |-> "record_usage", id |-> key_id]
  /\ StoreUnchanged

\* list_keys: SELECT ... FROM keys
StoreList ==
  /\ ret' = [op |-> "list_keys", rows |-> db.keys]
  /\ db' = db
  /\ StoreUnchanged

StoreActiveKeys ==
  /\ \E provider \in {"google", "openai"} :
       ret' = [op |-> "get_active_keys", provider |-> provider,
               ids |-> active_keys_in(db.keys, provider)]
  /\ db' = db
  /\ StoreUnchanged

StoreNext ==
  \/ StoreAdd
  \/ StoreRemove
  \/ StoreDecrypt
  \/ StoreUpdateStatus
  \/ StoreRecordProbe
  \/ StoreRecordUsage
  \/ StoreList
  \/ StoreActiveKeys

SpecStore == InitFresh /\ [][StoreNext]_vars

\* ------------------------------------------------------------------------
\* The JSON-RPC server (server/mod.rs, auth.rs)
\* ------------------------------------------------------------------------

MaxSent == 2

\* RateLimiter::new(100, 60)
max_requests == 100

Methods ==
  {"kv.generate", "kv.parallelGenerate", "kv.swarmGenerate", "kv.admin.addKey",
   "kv.admin.removeKey", "kv.admin.rotateToken", "kv.admin.syncToken",
   "kv.admin.listKeys", "kv.health", "kv.usage", "kv.models", "kv.activeModels",
   "kv.modelRegistry", "kv.swarmStatus"}

\* the auth field of a request: absent, the first token, the same with a
\* line end, the second token
AuthInputs == {None, "t0", "t0\n", "t1"}

WhiteSpace == {" ", "\n", "\t", "\r"}

RECURSIVE trim_start(_)
trim_start(s) ==
  IF s # "" /\ SubSeq(s, 1, 1) \in WhiteSpace THEN trim_start(SubSeq(s, 2, Len(s))) ELSE s

RECURSIVE trim_end(_)
trim_end(s) ==
  IF s # "" /\ SubSeq(s, Len(s), Len(s)) \in WhiteSpace
  THEN trim_end(SubSeq(s, 1, Len(s) - 1)) ELSE s

\* str::trim
trim(s) == trim_end(trim_start(s))

\* load_file_token: the trimmed content of the file when it is one token of
\* 64 hex digits, else an error (a missing file, an empty one, other data)
load_file_token(content) ==
  IF content = None THEN "err"
  ELSE IF trim(content) \in { Tokens[i] : i \in 1..Len(Tokens) } THEN trim(content)
  ELSE "err"

\* constant_time_eq: the HMAC-SHA256 tags of a and b are equal
constant_time_eq(a, b) == a = b

\* AuthGuard::validate
validate(token_hex, candidate) == constant_time_eq(trim(candidate), token_hex)

\* a policy under which no method needs the token, which C20_AuthGate must
\* tell from the code
requires_auth_open(method) == FALSE

requires_auth(method) ==
  method \notin {"kv.health", "kv.models", "kv.activeModels", "kv.modelRegistry",
                 "kv.swarmStatus"}

\* RateLimiter::new(100, 60)
window_secs == 60

\* a limiter that lets one request more through, which C22_LimiterCaps must
\* tell from the code
check_over(ws, caller, t) ==
  LET live(x) == t - x < window_secs
      timestamps == SelectSeq(ws[caller], live) IN
  IF Len(timestamps) > max_requests
  THEN [windows |-> [ws EXCEPT ![caller] = timestamps], result |-> "err",
        retry |-> window_secs - (t - timestamps[1])]
  ELSE [windows |-> [ws EXCEPT ![caller] = Append(timestamps, t)], result |-> "ok",
        retry |-> 0]

\* RateLimiter::check at Instant t: the expired timestamps of the caller
\* are removed; at max_requests live ones the call is refused with the
\* seconds until the oldest expires, else t is pushed
check(ws, caller, t) ==
  LET live(x) == t - x < window_secs
      timestamps == SelectSeq(ws[caller], live) IN
  IF Len(timestamps) >= max_requests
  THEN [windows |-> [ws EXCEPT ![caller] = timestamps], result |-> "err",
        retry |-> window_secs - (t - timestamps[1])]
  ELSE [windows |-> [ws EXCEPT ![caller] = Append(timestamps, t)], result |-> "ok",
        retry |-> 0]

\* handle_request up to the match on the method, for one request line: auth
\* check, then the rate limiter for the caller of the request
handle_request(c, method, auth, caller) ==
  LET r == check(srv.limiter, caller, now) IN
  /\ srv.conn[c].pc = "idle"
  /\ IF requires_auth(method) /\ (auth = None \/ ~validate(srv.token_hex, auth))
     THEN /\ ret' = [op |-> "request", method |-> method, auth |-> auth, caller |-> caller,
                     response |-> "auth_error"]
          /\ srv' = srv
     ELSE IF r.result = "err"
     THEN /\ ret' = [op |-> "request", method |-> method, auth |-> auth, caller |-> caller,
                     response |-> "rate_limited", retry_after_secs |-> r.retry]
          /\ srv' = [srv EXCEPT !.limiter = r.windows]
     ELSE /\ ret' = [op |-> "request", method |-> method, auth |-> auth, caller |-> caller,
                     response |-> "accepted"]
          /\ srv' = [srv EXCEPT !.limiter = r.windows,
                       !.admitted[caller] = Append(@, now),
                       !.conn[c] = [pc |-> "validated", method |-> method, auth |-> auth,
                                    valid_for |-> srv.token_hex]]
  /\ UNCHANGED << now, today, status, usage_log, windows, counters, task, scan, vault, calls, hist, db >>

\* a request line arrives on connection c
Receive(c) ==
  \E method \in Methods, auth \in AuthInputs :
    /\ handle_request(c, method, auth, "anonymous")
    /\ Len(srv'.admitted["anonymous"]) <= MaxSent

\* the request of connection c has passed the checks and its method is m
Validated(c, m) == srv.conn[c].pc = "validated" /\ srv.conn[c].method = m

Dispatched_(c, response) ==
  [op |-> "dispatch", method |-> srv.conn[c].method, auth |-> srv.conn[c].auth,
   valid_for |-> srv.conn[c].valid_for, response |-> response]

\* handle_generate with a provider hint: pool.generate
DispatchGenerate(c) ==
  /\ Validated(c, "kv.generate")
  /\ \A t \in Tasks : Idle(t)
  /\ \E model \in ReqModels : StartSingle("google", model)
  /\ srv' = [srv EXCEPT !.conn[c].pc = "handling"]

\* handle_parallel_generate: pool.parallel_generate_multi
DispatchParallel(c) ==
  /\ Validated(c, "kv.parallelGenerate")
  /\ \A t \in Tasks : Idle(t)
  /\ \E model \in ReqModels : StartParallel(<< << "google", model >> >>)
  /\ srv' = [srv EXCEPT !.conn[c].pc = "handling"]

\* handle_swarm_generate: swarm_generate
DispatchSwarm(c) ==
  /\ Validated(c, "kv.swarmGenerate")
  /\ \A t \in Tasks : Idle(t)
  /\ StartSwarm(<< 1 >>)
  /\ srv' = [srv EXCEPT !.conn[c].pc = "handling"]

\* the pool call of the connection has returned: write the response
Respond(c) ==
  /\ srv.conn[c].pc = "handling"
  /\ \A t \in Tasks : task[t].pc \in {"idle", "done"}
  /\ ret' = Dispatched_(c, IF \E t \in Tasks : task[t].ok THEN "success" ELSE "error")
  /\ srv' = [srv EXCEPT !.conn[c] = IdleConn]
  /\ UNCHANGED << now, today, status, usage_log, windows, counters, task, scan, vault, calls, hist, db >>

ServerUnchanged ==
  UNCHANGED << now, today, status, usage_log, windows, counters, task, scan, vault, calls, hist >>

\* handle_add_key
DispatchAddKey(c) ==
  /\ Validated(c, "kv.admin.addKey")
  /\ \E a \in { x \in AddInputs : x.role = "spare" } :
       db' = add_key(db, "g1", a.provider, a.raw_value, a.role, a.notes)
  /\ ret' = Dispatched_(c, "success")
  /\ srv' = [srv EXCEPT !.conn[c] = IdleConn]
  /\ ServerUnchanged

\* handle_remove_key
DispatchRemoveKey(c) ==
  /\ Validated(c, "kv.admin.removeKey")
  /\ \E id \in KeyIds :
       /\ db' = remove_key(db, id).db
       /\ ret' = Dispatched_(c, IF remove_key(db, id).result = "true" THEN "success" ELSE "error")
  /\ srv' = [srv EXCEPT !.conn[c] = IdleConn]
  /\ ServerUnchanged

\* a rotation that reports success and leaves the old token in the guard,
\* which C23_RotateReplaces must tell from the code
rotate_keeps_old(g) ==
  LET new_token == Tokens[g.generated + 1] IN
  { [guard |-> [g EXCEPT !.generated = @ + 1, !.keychain = new_token,
                         !.file = token_file_of(new_token), !.replaced = g.token_hex],
     result |-> "ok", new_token |-> new_token] }

\* AuthGuard::rotate: a new token goes to the Keychain, then to the file,
\* then replaces token_hex; either write can fail, and the call returns the
\* error
rotate(g) ==
  LET new_token == Tokens[g.generated + 1] IN
  { [guard |-> [g EXCEPT !.generated = @ + 1],
     result |-> "err", new_token |-> None],
    [guard |-> [g EXCEPT !.generated = @ + 1, !.keychain = new_token],
     result |-> "err", new_token |-> None],
    [guard |-> [g EXCEPT !.generated = @ + 1, !.keychain = new_token,
                         !.file = token_file_of(new_token), !.token_hex = new_token,
                         !.replaced = g.token_hex],
     result |-> "ok", new_token |-> new_token] }

\* handle_rotate_token
DispatchRotate(c) ==
  /\ Validated(c, "kv.admin.rotateToken")
  /\ srv.generated < Len(Tokens)
  /\ \E r \in rotate(srv) :
       /\ srv' = [r.guard EXCEPT !.conn[c] = IdleConn]
       /\ ret' = [op |-> "dispatch", method |-> srv.conn[c].method, auth |-> srv.conn[c].auth,
                  valid_for |-> srv.conn[c].valid_for,
                  response |-> IF r.result = "ok" THEN "success" ELSE "error",
                  old_token |-> srv.token_hex, new_token |-> r.new_token]
  /\ db' = db
  /\ ServerUnchanged

\* handle_sync_token: AuthGuard::sync rewrites the file from token_hex
DispatchSync(c) ==
  /\ Validated(c, "kv.admin.syncToken")
  /\ \E ok \in BOOLEAN :
       /\ srv' = [srv EXCEPT !.file = IF ok THEN token_file_of(srv.token_hex) ELSE @, !.conn[c] = IdleConn]
       /\ ret' = Dispatched_(c, IF ok THEN "success" ELSE "error")
  /\ db' = db
  /\ ServerUnchanged

\* the handlers that only read: handle_health, handle_usage, handle_models,
\* handle_active_models, handle_model_registry, handle_swarm_status,
\* handle_list_keys
ReadMethods ==
  {"kv.health", "kv.usage", "kv.models", "kv.activeModels", "kv.modelRegistry",
   "kv.swarmStatus", "kv.admin.listKeys"}

DispatchRead(c) ==
  /\ srv.conn[c].pc = "validated"
  /\ srv.conn[c].method \in ReadMethods
  /\ ret' = Dispatched_(c, "success")
  /\ srv' = [srv EXCEPT !.conn[c] = IdleConn]
  /\ db' = db
  /\ ServerUnchanged

ServerNext ==
  \/ \E c \in Conns : Receive(c)
  \/ \E c \in Conns : DispatchGenerate(c)
  \/ \E c \in Conns : DispatchParallel(c)
  \/ \E c \in Conns : DispatchSwarm(c)
  \/ \E c \in Conns : Respond(c)
  \/ \E c \in Conns : DispatchAddKey(c)
  \/ \E c \in Conns : DispatchRemoveKey(c)
  \/ \E c \in Conns : DispatchRotate(c)
  \/ \E c \in Conns : DispatchSync(c)
  \/ \E c \in Conns : DispatchRead(c)
  \/ TaskSteps

SpecServer == InitFresh /\ [][ServerNext]_vars

\* ------------------------------------------------------------------------
\* The rate limiter of the server under load (auth.rs, server/mod.rs)
\* ------------------------------------------------------------------------

MaxInstant == 60
MaxOther == 1

\* the seconds between two requests that are not in the same second
LimiterSteps == {59, 60}

\* time passes between two request lines
LimiterTick ==
  /\ \E d \in LimiterSteps : now + d <= MaxInstant /\ now' = now + d
  /\ ret' = NoRet
  /\ UNCHANGED << today, status, usage_log, windows, counters, task, scan, vault, calls, hist, db, srv >>

\* a request for an open method, from either caller; the second caller sends
\* a few requests only
LimiterReceive(c) ==
  \E caller \in Callers :
    /\ caller = "anonymous" \/ Len(srv.admitted[caller]) < MaxOther
    /\ handle_request(c, "kv.health", None, caller)

LimiterNext ==
  \/ LimiterTick
  \/ LimiterReceive(1)
  \/ DispatchRead(1)

SpecLimiter == InitFresh /\ [][LimiterNext]_vars

\* ------------------------------------------------------------------------
\* Start of the daemon and the two copies of the token (auth.rs, main.rs)
\* ------------------------------------------------------------------------

\* a machine on which the daemon has never run
NoServer ==
  [NewServer EXCEPT !.up = FALSE, !.token_hex = None, !.keychain = None, !.file = None,
                    !.generated = 0]

\* what a token file holds that is not a token
BadFiles == {"", "bad\n"}

\* a start in which the token file wins over the Keychain, which
\* C24_BootReconciles must tell from the code
bootstrap_file_first(g, read_ok, write_ok, file_ok) ==
  LET loaded == IF read_ok /\ g.keychain # None THEN g.keychain ELSE "err"
      from_file == load_file_token(g.file)
      token == IF from_file # "err" THEN from_file
               ELSE IF loaded # "err" THEN loaded
               ELSE Tokens[g.generated + 1] IN
  [g EXCEPT !.up = TRUE,
            !.token_hex = token,
            !.keychain = IF write_ok THEN token ELSE @,
            !.generated = IF loaded = "err" /\ from_file = "err" THEN @ + 1 ELSE @,
            !.file = IF file_ok THEN token_file_of(token) ELSE @]

\* AuthGuard::bootstrap: the token of the Keychain when it can be loaded,
\* else the token of the file, re-imported to the Keychain, else a new
\* token, stored in the Keychain; a failure to store is logged only. Then
\* the file is written from the token; a failure to write is logged only.
\* read_ok, write_ok: the Keychain can be read, written; file_ok: the token
\* file can be written
bootstrap(g, read_ok, write_ok, file_ok) ==
  LET loaded == IF read_ok /\ g.keychain # None THEN g.keychain ELSE "err"
      from_file == load_file_token(g.file)
      token == IF loaded # "err" THEN loaded
               ELSE IF from_file # "err" THEN from_file
               ELSE Tokens[g.generated + 1] IN
  [g EXCEPT !.up = TRUE,
            !.token_hex = token,
            !.keychain = IF loaded = "err" /\ write_ok THEN token ELSE @,
            !.generated = IF loaded = "err" /\ from_file = "err" THEN @ + 1 ELSE @,
            !.file = IF file_ok THEN token_file_of(token) ELSE @]

BootUnchanged ==
  UNCHANGED << now, today, status, usage_log, windows, counters, task, scan, vault, calls, hist, db >>

\* main: the daemon starts
Bootstrap ==
  /\ ~srv.up
  /\ srv.generated < Len(Tokens)
  /\ \E read_ok \in BOOLEAN, write_ok \in BOOLEAN, file_ok \in BOOLEAN :
       /\ srv' = bootstrap(srv, read_ok, write_ok, file_ok)
       /\ ret' = [op |-> "bootstrap", read_ok |-> read_ok, write_ok |-> write_ok,
                  file_ok |-> file_ok,
                  before |-> [keychain |-> srv.keychain, file |-> srv.file,
                              generated |-> srv.generated]]
  /\ BootUnchanged

\* what is left of a process that ends: the Keychain and the file
Down(g) ==
  [NewServer EXCEPT !.up = FALSE, !.token_hex = None, !.keychain = g.keychain,
                    !.file = g.file, !.generated = g.generated]

\* the daemon is stopped or crashes
Kill ==
  /\ srv.up
  /\ srv' = Down(srv)
  /\ ret' = [op |-> "kill"]
  /\ BootUnchanged

\* the daemon crashes within AuthGuard::rotate, after the Keychain write and
\* before the file write
CrashInRotate ==
  /\ srv.up
  /\ \E c \in Conns : Validated(c, "kv.admin.rotateToken")
  /\ srv.generated < Len(Tokens)
  /\ srv' = Down([srv EXCEPT !.generated = @ + 1, !.keychain = Tokens[srv.generated + 1]])
  /\ ret' = [op |-> "crash"]
  /\ BootUnchanged

\* the token file is deleted or damaged, the Keychain item is deleted
Damage ==
  /\ \/ srv.file # None /\ srv' = [srv EXCEPT !.file = None]
     \/ srv.file # None /\ \E content \in BadFiles : srv' = [srv EXCEPT !.file = content]
     \/ srv.keychain # None /\ srv' = [srv EXCEPT !.keychain = None]
  /\ ret' = [op |-> "damage"]
  /\ BootUnchanged

\* the requests that concern the token, on the first connection
BootReceive(c) ==
  \E method \in {"kv.admin.rotateToken", "kv.admin.syncToken", "kv.health"},
     auth \in AuthInputs :
    /\ handle_request(c, method, auth, "anonymous")
    /\ Len(srv'.admitted["anonymous"]) <= MaxSent

BootNext ==
  \/ Bootstrap
  \/ Kill
  \/ CrashInRotate
  \/ Damage
  \/ srv.up /\ BootReceive(1)
  \/ srv.up /\ DispatchRotate(1)
  \/ srv.up /\ DispatchSync(1)
  \/ srv.up /\ DispatchRead(1)

InitBoot ==
  /\ now = 0
  /\ today = 0
  /\ status = [k \in KeyIds |-> "active"]
  /\ usage_log = [t \in Tasks |-> <<>>]
  /\ windows = [x \in {} |-> NewWindow]
  /\ counters = NewCounters
  /\ task = [t \in Tasks |-> IdleTask]
  /\ scan = NoScan
  /\ vault = NewVault
  /\ calls = [c \in 1..NumTasks |-> NoCall]
  /\ hist = [x \in {} |-> <<>>]
  /\ ret = NoRet
  /\ db = NewDb
  /\ srv = NoServer

SpecBoot == InitBoot /\ [][BootNext]_vars

\* trackers one request short of the limit: for one model, the first
\* credential has free_rpm - 1 requests in the current minute and the second
\* one is full
NearLimitWindows ==
  { [x \in { << k, m >> : k \in KeyIds } |->
       IF x[1] = KEYS[1].id THEN LoadedWindow(ModelSpec(m).free_rpm - 1)
       ELSE LoadedWindow(ModelSpec(m).free_rpm)] : m \in PreloadModels }

InitNearLimit ==
  /\ now = 0
  /\ today = 0
  /\ status = [k \in KeyIds |-> "active"]
  /\ usage_log = [t \in Tasks |-> <<>>]
  /\ windows \in NearLimitWindows \cup { [x \in {} |-> NewWindow] }
  /\ counters = NewCounters
  /\ task = [t \in Tasks |-> IdleTask]
  /\ scan = NoScan
  /\ AuxInit

\* swarm calls on trackers that are empty or close to the limit
SpecNearLimit == InitNearLimit /\ [][SwarmNext]_vars

\* swarm calls alone, on trackers of any load
SpecSwarm == Init /\ [][SwarmNext]_vars

\* swarm calls when every started step is eventually taken: the runtime
\* polls each spawned task, and each adapter call returns
FairSwarm ==
  /\ SpecSwarm
  /\ \A t \in Tasks : /\ WF_vars(SwarmSelect(t))
                       /\ WF_vars(SwarmRecord(t))
                       /\ WF_vars(SwarmResponse(t))

\* generate and generate_parallel calls on a store whose credentials have
\* any status
ParallelCallsNext ==
  \/ SingleNext
  \/ ParallelNext

SpecParallel == InitDisc /\ [][ParallelCallsNext]_vars

\* ------------------------------------------------------------------------
\* The results of a parallel or swarm call (pool/mod.rs, pool/swarm.rs)
\* ------------------------------------------------------------------------

\* what the handle of the task in slot h resolves to; label tells which
\* submitted task it is the result of
ResultOf(h) == [label |-> task[h].idx, ok |-> task[h].ok, result |-> task[h].result]

\* a collection that takes a finished task first, whatever its place, which
\* C28_ResultsInOrder must tell from the code
next_handle_finished_first(f) ==
  LET open == { i \in 1..Len(f.handles) :
                  \A k \in 1..Len(f.results) : f.results[k].label # task[f.handles[i]].idx }
      finished == { i \in open : task[f.handles[i]].pc = "done" } IN
  IF finished # {} THEN f.handles[CHOOSE i \in finished : \A j \in finished : i >= j]
  ELSE f.handles[CHOOSE i \in open : \A j \in open : i <= j]

\* `for handle in handles`: the handle to await next
next_handle(f) == f.handles[Len(f.results) + 1]

\* `results.push(handle.await..)`, once the spawn loop is over; the call
\* returns after the last push
Join(c) ==
  /\ calls[c].kind # "none" /\ ~calls[c].returned
  /\ Len(calls[c].handles) = calls[c].n
  /\ LET h == next_handle(calls[c]) IN
       /\ task[h].pc = "done"
       /\ calls' = [calls EXCEPT ![c].results = Append(@, ResultOf(h)),
                                 ![c].returned = (Len(calls[c].results) + 1 = calls[c].n)]
  /\ UNCHANGED << now, today, status, usage_log, windows, counters, task, scan, vault, aux >>

JoinNext ==
  \/ ParallelNext
  \/ SwarmNext
  \/ \E c \in Tasks : Join(c)

\* parallel and swarm calls on a store whose credentials have any status
SpecJoin == InitDisc /\ [][JoinNext]_vars

\* ------------------------------------------------------------------------
\* The vault: encrypt and decrypt (vault/mod.rs)
\* ------------------------------------------------------------------------

MaxBlobs == 2

SALT_LEN == 32
NONCE_LEN == 12

\* the length of the AES-GCM tag, the 16 of `SALT_LEN + NONCE_LEN + 16`
TAG_LEN == 16

\* byte strings to encrypt, the empty one among them, and passphrases
Plaintexts == { <<>>, << 65 >>, << 65, 73 >> }
Passphrases == { "correct", "incorrect" }

\* OsRng.fill_bytes, the n-th draw of the process: len bytes that no other
\* draw returns
fill_bytes(n, len) == [i \in 1..len |-> [rnd |-> n, at |-> i]]

\* derive_key: the Argon2id key of the passphrase and the salt; two pairs
\* that differ have different keys
derive_key(passphrase, salt) == [kdf |-> "argon2id", passphrase |-> passphrase, salt |-> salt]

\* Aes256Gcm::encrypt: the bytes of the plaintext under the key stream of
\* (key, nonce), followed by the tag of (key, nonce, these bytes)
aead_tag(key, nonce, body) ==
  [j \in 1..TAG_LEN |-> [tag |-> j, key |-> key, nonce |-> nonce, body |-> body]]

aead_encrypt(key, nonce, plaintext) ==
  LET body == [i \in 1..Len(plaintext) |->
                 [ct |-> plaintext[i], key |-> key, nonce |-> nonce, at |-> i]] IN
  body \o aead_tag(key, nonce, body)

\* Aes256Gcm::decrypt: the tag is checked, then the bytes are read back
aead_decrypt(key, nonce, ciphertext) ==
  LET n == Len(ciphertext) - TAG_LEN
      body == SubSeq(ciphertext, 1, n)
      tag == SubSeq(ciphertext, n + 1, Len(ciphertext)) IN
  IF n >= 0 /\ tag = aead_tag(key, nonce, body)
  THEN [ok |-> TRUE, plaintext |-> [i \in 1..n |-> body[i].ct]]
  ELSE [ok |-> FALSE]

\* encrypt, with the draws rng + 1 and rng + 2 of the random generator:
\* salt || nonce || ciphertext
encrypt(plaintext, passphrase, rng) ==
  LET salt == fill_bytes(rng + 1, SALT_LEN)
      nonce_bytes == fill_bytes(rng + 2, NONCE_LEN)
      key == derive_key(passphrase, salt) IN
  salt \o nonce_bytes \o aead_encrypt(key, nonce_bytes, plaintext)

\* a decrypt that reads the nonce one byte early, which C25_RoundTrip must
\* tell from the code
decrypt_nonce_early(data, passphrase) ==
  IF Len(data) < SALT_LEN + NONCE_LEN + TAG_LEN THEN [ok |-> FALSE]
  ELSE LET salt == SubSeq(data, 1, SALT_LEN)
           nonce_bytes == SubSeq(data, SALT_LEN, SALT_LEN + NONCE_LEN - 1)
           ciphertext == SubSeq(data, SALT_LEN + NONCE_LEN + 1, Len(data))
           key == derive_key(passphrase, salt) IN
       aead_decrypt(key, nonce_bytes, ciphertext)

\* decrypt: too short is an error; else the three parts are cut out, the
\* key derived from the passphrase and the salt, and the ciphertext opened
decrypt(data, passphrase) ==
  IF Len(data) < SALT_LEN + NONCE_LEN + TAG_LEN THEN [ok |-> FALSE]
  ELSE LET salt == SubSeq(data, 1, SALT_LEN)
           nonce_bytes == SubSeq(data, SALT_LEN + 1, SALT_LEN + NONCE_LEN)
           ciphertext == SubSeq(data, SALT_LEN + NONCE_LEN + 1, Len(data))
           key == derive_key(passphrase, salt) IN
       aead_decrypt(key, nonce_bytes, ciphertext)

VaultUnchanged ==
  UNCHANGED << now, today, status, usage_log, windows, counters, task, scan, calls, hist, db,
               srv >>

\* a call of encrypt
VaultEncrypt ==
  /\ Len(vault.blobs) < MaxBlobs
  /\ \E plaintext \in Plaintexts, passphrase \in Passphrases :
       LET data == encrypt(plaintext, passphrase, vault.rng) IN
       /\ vault' = [rng |-> vault.rng + 2,
                    blobs |-> Append(vault.blobs, [plaintext |-> plaintext,
                                                   passphrase |-> passphrase,
                                                   data |-> data])]
       /\ ret' = [op |-> "encrypt", plaintext |-> plaintext, passphrase |-> passphrase]
  /\ VaultUnchanged

\* a call of decrypt on a blob that encrypt returned
VaultDecrypt ==
  /\ \E i \in 1..Len(vault.blobs), passphrase \in Passphrases :
       ret' = [op |-> "decrypt", blob |-> i, passphrase |-> passphrase, damaged |-> FALSE,
               result |-> decrypt(vault.blobs[i].data, passphrase)]
  /\ vault' = vault
  /\ VaultUnchanged

\* a blob with one byte changed, or cut short
Damaged(data) ==
  { [data EXCEPT ![i] = [rnd |-> 0, at |-> 0]] : i \in {1, SALT_LEN + 1, Len(data)} }
    \cup { SubSeq(data, 1, Len(data) - 1), SubSeq(data, 1, SALT_LEN + NONCE_LEN) }

\* a call of decrypt on a damaged blob
VaultDecryptDamaged ==
  /\ \E i \in 1..Len(vault.blobs), passphrase \in Passphrases :
       \E data \in Damaged(vault.blobs[i].data) :
         ret' = [op |-> "decrypt", blob |-> i, passphrase |-> passphrase, damaged |-> TRUE,
                 result |-> decrypt(data, passphrase)]
  /\ vault' = vault
  /\ VaultUnchanged

VaultNext == VaultEncrypt \/ VaultDecrypt \/ VaultDecryptDamaged

SpecVault == InitFresh /\ [][VaultNext]_vars

\* ------------------------------------------------------------------------
\* Routing: classify, select_model, fallback_model (pool/classifier.rs)
\* ------------------------------------------------------------------------

\* prompts: those of the tests of the classifier, the empty one, prompts
\* without a pattern of 1, 21 and 81 words, prompts with file references,
\* and prompts whose pattern counts for short prompts only
Prompts == {
    "rename the variable foo to bar",
    "add import for serde::Serialize",
    "fix typo in function name",
    "write a test for the login function",
    "add a new struct called UserProfile",
    "generate boilerplate for the API client",
    "implement the handler for the /users endpoint with validation",
    "refactor the module to use a service pattern",
    "implement a thread-safe connection pool with async support",
    "write a parser for the custom DSL grammar",
    "implement AES-256 encryption with proper key derivation",
    "redesign the entire architecture to use event sourcing",
    "cross-crate refactor of the error handling system",
    "",
    "hello",
    "RENAME the Architecture",
    "update a.rs b.ts c.py d.go now",
    "update a.rs b.ts now",
    "x x x x x x x x x x x x x x x x x x x x x",
    "x x x x x x x x x x x x x x x x x x x x x x x x x x x x x x x x x x x x x x x x x x x x x x x x x x x x x x x x x x x x x x x x x x x x x x x x x x x x x x x x x",
    "rename x x x x x x x x x x x x x x x x x x x x x",
    "write a test x x x x x x x x x x x x x x x x x x x x x",
    "rename the async parser",
    "write a test for the parser",
    "rename x x x x x x x x x x x x x x",
    "rename x x x x x x x x x x x x x x x async",
    "update a.rs b.ts now please with the api service",
    "x x x x x x x x x x x x x x x x x x x x",
    "x x x x x x x x x x x x x x x x x x x x x x x x x x x x x x x x x x x x x x x x x x x x x x x x x x x x x x x x x x x x x x x x x x x x x x x x x x x x x x x x" }

\* model ids to ask a fallback for: those of the registry and an unknown one
FallbackInputs == ModelIds \cup {"gpt-4o"}

RouteUnchanged ==
  UNCHANGED << now, today, status, usage_log, windows, counters, task, scan, vault, calls, hist, db, srv >>

\* classify(prompt)
RouteClassify ==
  /\ ret.op = "none"
  /\ \E prompt \in Prompts :
       ret' = [op |-> "classify", prompt |-> prompt, complexity |-> classify(prompt)]
  /\ RouteUnchanged

\* select_model(complexity), for the complexity of a prompt or one given
RouteSelect ==
  /\ \/ /\ ret.op = "classify"
        /\ ret' = [op |-> "select_model", prompt |-> ret.prompt,
                   complexity |-> ret.complexity, model |-> select_model(ret.complexity)]
     \/ /\ ret.op = "none"
        /\ \E complexity \in TaskComplexity :
             ret' = [op |-> "select_model", prompt |-> None, complexity |-> complexity,
                     model |-> select_model(complexity)]
  /\ RouteUnchanged

\* fallback_model(current_model_id), for a model id given or for the model
\* that the last call returned
RouteFallback ==
  /\ \/ /\ ret.op = "none"
        /\ \E id \in FallbackInputs :
             ret' = [op |-> "fallback_model", prompt |-> None, first |-> id,
                     current_model_id |-> id, model |-> fallback_model(id), steps |-> 1]
     \/ /\ ret.op = "select_model"
        /\ ret' = [op |-> "fallback_model", prompt |-> ret.prompt, first |-> ret.model,
                   current_model_id |-> ret.model, model |-> fallback_model(ret.model),
                   steps |-> 1]
     \/ /\ ret.op = "fallback_model" /\ ret.model # None
        /\ ret' = [ret EXCEPT !.current_model_id = ret.model,
                              !.model = fallback_model(ret.model),
                              !.steps = @ + 1]
  /\ RouteUnchanged

RouteNext == RouteClassify \/ RouteSelect \/ RouteFallback

SpecRoute == InitFresh /\ [][RouteNext]_vars

\* ------------------------------------------------------------------------
\* Properties
\* ------------------------------------------------------------------------

\* the events of a log entry whose adapter call has been issued
Dispatched == Outcomes \cup {"inflight"}

\* the iterations of a log that reached the adapter
CallsOf(log) == { i \in 1..Len(log) : log[i].ev \in Dispatched }

\* the adapter calls of a log that have returned
ReturnedOf(log) == { i \in 1..Len(log) : log[i].ev \in Outcomes }

\* requests the tracker counts for (key_id, model_id) in the last minute
TrackedRpm(key_id, model_id) ==
  IF << key_id, model_id >> \in DOMAIN windows
  THEN Len(prune_minute_window(windows[<< key_id, model_id >>].minute_window, now))
  ELSE 0

\* adapter calls the tasks have dispatched on (key_id, model_id)
DispatchedOn(key_id, model_id) ==
  SumSeq([t \in Tasks |->
    Cardinality({ i \in CallsOf(task[t].log) :
                    task[t].log[i].key_id = key_id /\ task[t].log[i].model = model_id })])

\* C1: discovery re-admission. When a scan has finished, every credential
\* that was rate_limited when the scan listed the keys, and for which the
\* provider answered the scan's health probe with valid and a quota other
\* than 0, is active.
C1_Readmission ==
  scan.pc = "done" =>
    \A i \in 1..Len(scan.keys) :
      ( /\ scan.keys[i].status = "rate_limited"
        /\ scan.remote[scan.keys[i].id].valid
        /\ scan.remote[scan.keys[i].id].pct # 0 )
      => status[scan.keys[i].id] = "active"

\* C2: swarm failover. When an iteration of a swarm task failed on credential
\* k with a rate-limit error and, at the next selection, another candidate is
\* active and admitted by the tracker for the current model, the next
\* iteration dispatches on a credential other than k for the same model.
C2_FailoverOtherKey ==
  \A t \in Tasks : task[t].kind = "swarm" =>
    \A i \in 1..(Len(task[t].log) - 1) :
      LET e == task[t].log[i]
          n == task[t].log[i + 1]
      IN ( /\ e.ev = "429"
           /\ \E k \in (n.adm \cap n.act) : k # e.key_id )
         => ( /\ n.key_id \in KeyIds \ {e.key_id}
              /\ n.model = e.model )

\* C3: a swarm task cascades to fallback_model(current), or returns the
\* cascade-failure result, only when the tracker admits none of its
\* candidates for the current model.
C3_CascadeOnlyAtCapacity ==
  \A t \in Tasks : task[t].kind = "swarm" =>
    \A i \in 1..Len(task[t].log) :
      task[t].log[i].ev \in {"cascade", "nofallback"} => task[t].log[i].adm = {}

\* the swarm cascade scenario: a task without hint and without override,
\* one candidate, which the tracker does not admit for the initial model
CascadeScenario(t) ==
  /\ task[t].kind = "swarm"
  /\ SwarmTasks[task[t].desc].complexity = -1
  /\ SwarmTasks[task[t].desc].model = None
  /\ Len(task[t].active_keys) = 1
  /\ Len(task[t].log) >= 1
  /\ task[t].log[1].adm = {}

\* C4 as stated: a complex task whose only candidate is at capacity for
\* gemini-3-pro-preview makes its second attempt on fallback_model(initial)
\* and, when that call succeeds, returns ok = true with retries = 1.
C4_CascadeAsStated ==
  \A t \in Tasks :
    ( CascadeScenario(t) /\ task[t].complexity = Complex /\ task[t].pc = "done" )
    => ( /\ Len(task[t].log) >= 2
         /\ task[t].log[2].model = fallback_model(task[t].initial_model)
         /\ (task[t].log[2].ev = "ok" => task[t].ok /\ task[t].retries = 1) )

\* C4, amended: in the cascade scenario a complex task starts on
\* gemini-3-pro-preview, the top of the cascade, and returns the
\* cascade-failure result (ok = false, retries = 0) without an adapter call
\* and without a usage row; a medium task starts on gemini-3-flash-preview,
\* runs its second iteration on gemini-2.5-pro and, when the call of that
\* iteration succeeds, returns ok = true with retries = 1.
C4_CascadeScenario ==
  \A t \in Tasks : CascadeScenario(t) =>
    /\ task[t].complexity = Complex =>
         /\ task[t].initial_model = "gemini-3-pro-preview"
         /\ task[t].pc = "done" /\ task[t].result = "NoFallback"
         /\ ~task[t].ok /\ task[t].retries = 0
         /\ Len(task[t].log) = 1 /\ task[t].log[1].ev = "nofallback"
         /\ usage_log[t] = <<>>
    /\ task[t].complexity = Medium =>
         /\ task[t].initial_model = "gemini-3-flash-preview"
         /\ task[t].log[1].ev = "cascade"
         /\ Len(task[t].log) >= 2 => task[t].log[2].model = "gemini-2.5-pro"
         /\ (Len(task[t].log) = 2 /\ task[t].log[2].ev = "ok")
              => (task[t].pc = "done" /\ task[t].ok /\ task[t].retries = 1)

\* a complex task in the cascade scenario has returned
C4_Witness ==
  \E t \in Tasks :
    CascadeScenario(t) /\ task[t].complexity = Complex /\ task[t].pc = "done"

\* every usage row with status = error carries zero tokens
ErrorRowsZero(rows) ==
  \A j \in 1..Len(rows) :
    rows[j].status = "error" => rows[j].input_tokens = 0 /\ rows[j].output_tokens = 0

FailoverRun(t) ==
  /\ task[t].kind = "single" /\ task[t].pc = "done"
  /\ Len(task[t].log) >= 2
  /\ task[t].log[Len(task[t].log)].ev = "ok"
  /\ \A i \in 1..(Len(task[t].log) - 1) : task[t].log[i].ev = "429"

SingleMeasure(r) ==
  IF r.pc = "done" THEN 0
  ELSE 2 * (Len(r.active_keys) - r.attempt) + (IF r.pc = "attempt" THEN 1 ELSE 0)

\* what a generate call has done so far is within one pass over the N
\* credentials loaded at entry, and its result is one of the documented ones
SinglePass(t) ==
  LET r == task[t]
      N == Len(r.active_keys)
  IN /\ r.attempt <= N /\ Len(r.log) <= N
     /\ Cardinality(CallsOf(r.log)) <= N
     /\ r.pc \in {"attempt", "call"} => (r.attempt < N /\ SingleMeasure(r) > 0)
     /\ r.pc = "done" => r.result \in {"NoAdapter", "NoCredentials", "Ok", "Exhausted"}
     /\ r.result = "NoAdapter" <=> r.provider \notin Adapters
     /\ r.result \in {"NoAdapter", "NoCredentials"} => r.log = <<>>
     /\ r.result = "Exhausted" =>
          /\ N >= 1 /\ r.attempt = N /\ Len(r.log) = N
          /\ \A i \in 1..N : r.log[i].ev \notin {"ok", "inflight"}
     /\ r.result = "Ok" => r.log[Len(r.log)].ev = "ok"

\* the entry of generate: NoAdapter before NoCredentials before the loop
SingleEntry ==
  \A provider \in Providers, model \in ReqModels :
    StartSingle(provider, model) =>
      LET r == task'[FirstIdle] IN
      IF provider \notin Adapters THEN r.pc = "done" /\ r.result = "NoAdapter"
      ELSE IF get_active_keys(provider) = <<>>
        THEN r.pc = "done" /\ r.result = "NoCredentials"
      ELSE r.pc = "attempt" /\ r.active_keys = get_active_keys(provider) /\ r.attempt = 0

\* every step of a generate call brings it closer to its return
SingleProgress ==
  \A t \in Tasks :
    (task[t].kind = "single" /\ task'[t] # task[t])
      => SingleMeasure(task'[t]) < SingleMeasure(task[t])

OtherErrors == {"401", "net"}

C9_MarkOnlyRateExhausted ==
  \A t \in Tasks : \A i \in 1..Len(task[t].log) :
    task[t].log[i].ev \in {"401", "net"} => ~task[t].log[i].marked

\* C10: every adapter call dispatched on (k, m) was recorded in the rate
\* tracker first, so the tracker's count of the last minute for (k, m) is at
\* least the number of calls dispatched on (k, m).
C10_TrackerCoversCalls ==
  \A k \in KeyIds : \A m \in ModelIds : TrackedRpm(k, m) >= DispatchedOn(k, m)

\* record() calls made for (key_id, model_id) within the preceding 60 seconds
RecentCalls(key_id, model_id) ==
  Cardinality({ i \in 1..Len(HistOf(key_id, model_id)) :
                  HistOf(key_id, model_id)[i].at >= now - 60 })

\* record() calls made for (key_id, model_id) on the current day
CallsToday(key_id, model_id) ==
  Cardinality({ i \in 1..Len(HistOf(key_id, model_id)) :
                  HistOf(key_id, model_id)[i].day = today })

\* C11: check(k, m, max_rpm, max_rpd) admits exactly when the rpm and the rpd
\* it reports are below max_rpm and max_rpd, for keys with and without
\* recorded calls and for every limit, 0 included.
C11_AdmitIffBelowLimits ==
  ret.op = "check" =>
    ( ret.can_proceed <=> (ret.rpm < ret.max_rpm /\ ret.rpd < ret.max_rpd) )

\* positions of ret.keys that are below both limits of the call
AdmissibleIn(r) ==
  { i \in 1..Len(r.keys) :
      /\ RecentCalls(r.keys[i], r.model_id) < r.max_rpm
      /\ CallsToday(r.keys[i], r.model_id) < r.max_rpd }

\* C12: least_loaded returns none exactly when no candidate is admissible;
\* otherwise it returns the admissible candidate with the fewest calls in the
\* last minute, the earliest of the list among equals; a candidate with
\* max_rpm calls recorded in the last minute is never returned.
C12_LeastLoadedAdmissible ==
  ret.op = "least_loaded" =>
    /\ ret.key = None <=> AdmissibleIn(ret) = {}
    /\ ret.key # None =>
         \E i \in AdmissibleIn(ret) :
           /\ ret.keys[i] = ret.key
           /\ \A j \in AdmissibleIn(ret) :
                LET ri == RecentCalls(ret.keys[i], ret.model_id)
                    rj == RecentCalls(ret.keys[j], ret.model_id)
                IN ri < rj \/ (ri = rj /\ i <= j)
    /\ \A i \in 1..Len(ret.keys) :
         RecentCalls(ret.keys[i], ret.model_id) = ret.max_rpm => ret.key # ret.keys[i]

\* C13: after any sequence of record, check, least_loaded and snapshot calls,
\* the rpm that check and snapshot report for (k, m), and the rpm a check of
\* any pair would report now, is the number of record(k, m) calls made
\* within the preceding 60 seconds.
C13_RpmCountsLastMinute ==
  /\ \A k \in KeyIds, m \in TrackerModels : TrackedRpm(k, m) = RecentCalls(k, m)
  /\ ret.op = "check" => ret.rpm = RecentCalls(ret.key_id, ret.model_id)
  /\ ret.op = "snapshot" =>
       \A row \in ret.rows : row.current_rpm = RecentCalls(row.key_id, row.model_id)

\* a check counts one of two recorded calls: the first is older than a
\* minute, the second exactly 60 seconds old
C13_Witness ==
  /\ ret.op = "check"
  /\ ret.rpm = 1
  /\ Len(HistOf(ret.key_id, ret.model_id)) = 2
  /\ HistOf(ret.key_id, ret.model_id)[1].at < now - 60
  /\ HistOf(ret.key_id, ret.model_id)[2].at = now - 60

\* C14: decrypt_key returns the plaintext only for a credential that is
\* active at the time of the call and fails otherwise; so every adapter call
\* of generate, parallel_generate_multi, the swarm and the discovery scan
\* uses a credential that was active when it was decrypted.
C14_DecryptOnlyActive ==
  /\ \A t \in Tasks : \A i \in 1..Len(task[t].log) :
       /\ task[t].log[i].ev \in Dispatched \cup {"selected"} => task[t].log[i].dec = "active"
       /\ task[t].log[i].ev = "nodecrypt" => task[t].log[i].dec # "active"
  /\ \A i \in 1..Len(scan.probes) : scan.probes[i].dec = "active"
  /\ scan.pc = "probe" => scan.dec = "active"

\* a task was refused a credential that the scan had probed and taken out of
\* service, and then got an answer from the adapter on another, active one
C14_Witness ==
  \E t \in Tasks : \E i, j \in 1..Len(task[t].log) :
    /\ i < j
    /\ task[t].log[i].ev = "nodecrypt"
    /\ task[t].log[i].dec \in {"rate_limited", "quarantined"}
    /\ task[t].log[j].ev \in Outcomes
    /\ task[t].log[j].dec = "active"
    /\ \E p \in 1..Len(scan.probes) : scan.probes[p].key_id = task[t].log[i].key_id

\* C15: every plaintext buffer obtained from decrypt_key is scrubbed before
\* the function that holds it returns: a task that has returned, and a scan
\* that has finished, leave no buffer that was dropped without scrubbing.
C15_PlaintextScrubbed ==
  /\ \A t \in Tasks : task[t].pc = "done" =>
       \A i \in 1..Len(task[t].log) : task[t].log[i].raw_key \in {"none", "scrubbed"}
  /\ scan.pc = "done" =>
       \A i \in 1..Len(scan.probes) : scan.probes[i].raw_key = "scrubbed"

\* C16: a store error during generate, parallel_generate_multi or the swarm
\* makes the call return an error, and a decrypt_key failure is surfaced and
\* not skipped: a task that met a decrypt_key failure does not return Ok.
C16_DecryptFailureSurfaced ==
  \A t \in Tasks :
    ( /\ task[t].pc = "done"
      /\ \E i \in 1..Len(task[t].log) : task[t].log[i].ev = "nodecrypt" )
    => ~task[t].ok /\ task[t].result # "Ok"

\* C17: remove_key(id) deletes the row and returns true whenever a credential
\* with that id exists, also when it has probe or usage rows, after which the
\* id is absent from list_keys and decrypt_key(id) fails; it returns false
\* and leaves the store unchanged when no such credential exists.
C17_RemoveDeletes ==
  ret.op = "remove" =>
    IF ret.id \in RowIds(ret.before.keys)
    THEN /\ ret.result = "true"
         /\ ret.id \notin RowIds(db.keys)
         /\ decrypt_key(db.keys, ret.id) = "err"
    ELSE /\ ret.result = "false"
         /\ db = ret.before

\* C18: get_active_keys(provider) returns exactly the ids of the credentials
\* of the provider that are active and have the role worker; orchestrator
\* and spare credentials are excluded.
C18_ActiveWorkersOnly ==
  ret.op = "get_active_keys" =>
    { ret.ids[i] : i \in 1..Len(ret.ids) } =
      { id \in RowIds(db.keys) :
          /\ RowOf(db.keys, id).provider = ret.provider
          /\ RowOf(db.keys, id).status = "active"
          /\ RowOf(db.keys, id).role = "worker" }

\* C19: after add_key(id, provider, raw_value, role, notes) the store holds
\* exactly one row with that id, with the new provider, role, notes and
\* plaintext and the status active, whatever row with that id existed
\* before; the other rows are as before; ids are unique in every state.
C19_AddUpserts ==
  /\ \A i, j \in 1..Len(db.keys) : db.keys[i].id = db.keys[j].id => i = j
  /\ ret.op = "add" =>
       /\ Cardinality({ i \in 1..Len(db.keys) : db.keys[i].id = ret.id }) = 1
       /\ RowOf(db.keys, ret.id) =
            [id |-> ret.id, provider |-> ret.provider, role |-> ret.role,
             status |-> "active", notes |-> ret.notes, raw_value |-> ret.raw_value]
       /\ decrypt_key(db.keys, ret.id) = ret.raw_value
       /\ \A id \in RowIds(ret.before.keys) \ {ret.id} :
            id \in RowIds(db.keys) /\ RowOf(db.keys, id) = RowOf(ret.before.keys, id)

\* add_key replaced a quarantined credential that has a probe row, changing
\* its role, notes and plaintext
C19_Witness ==
  /\ ret.op = "add"
  /\ ret.id \in RowIds(ret.before.keys)
  /\ RowOf(ret.before.keys, ret.id).status = "quarantined"
  /\ RowOf(ret.before.keys, ret.id).role # ret.role
  /\ RowOf(ret.before.keys, ret.id).raw_value # ret.raw_value
  /\ ProbesOf(db, ret.id) # {}
  /\ RowOf(db.keys, ret.id).status = "active"

\* the methods that change store, tracker or token state
MutatingMethods ==
  {"kv.generate", "kv.parallelGenerate", "kv.swarmGenerate", "kv.admin.addKey",
   "kv.admin.removeKey", "kv.admin.rotateToken", "kv.admin.syncToken"}

\* the requests that passed the checks of handle_request and are with, or
\* on their way to, their handler
PassedRequests == { c \in Conns : srv.conn[c].pc \in {"validated", "handling"} }

\* a request for a method that needs the token was answered with the
\* authentication error in this step
Rejected ==
  /\ ret' # ret
  /\ ret'.op = "request"
  /\ ret'.response = "auth_error"

\* a rejected request changes no store, tracker, task or token state
RejectedChangesNothing ==
  Rejected => UNCHANGED << status, usage_log, windows, counters, task, scan, vault, calls, db, srv >>

\* a request without auth, or with an auth that validate refuses, for a
\* method that needs the token is answered with the authentication error
WrongAuthRefused ==
  ( /\ ret.op = "request"
    /\ ret.method \in MutatingMethods
    /\ (ret.auth = None \/ trim(ret.auth) # srv.token_hex) )
  => ret.response = "auth_error"

\* C20 as stated: a mutating method reaches its handler only if the auth
\* field of the request equals the bearer token that was current when the
\* request was validated; a request with a missing or wrong auth gets the
\* authentication error and changes no state.
C20_AuthEqualsToken ==
  /\ [](\A c \in PassedRequests :
          srv.conn[c].method \in MutatingMethods => srv.conn[c].auth = srv.conn[c].valid_for)
  /\ [](ret.op = "dispatch" /\ ret.method \in MutatingMethods => ret.auth = ret.valid_for)
  /\ []WrongAuthRefused
  /\ [][RejectedChangesNothing]_vars

\* C20, amended: a mutating method reaches its handler
\* only if the auth field of the request, with the white space around it
\* removed, equals the token that was current when the request was
\* validated; a request for such a method with a missing auth, or one that
\* differs from the token after trimming, gets the authentication error and
\* changes no store, tracker, task, limiter or token state.
C20_AuthGate ==
  /\ [](\A c \in PassedRequests :
          srv.conn[c].method \in MutatingMethods =>
            /\ srv.conn[c].auth # None
            /\ trim(srv.conn[c].auth) = srv.conn[c].valid_for)
  /\ [](ret.op = "dispatch" /\ ret.method \in MutatingMethods =>
          ret.auth # None /\ trim(ret.auth) = ret.valid_for)
  /\ []WrongAuthRefused
  /\ [][RejectedChangesNothing]_vars

\* a token rotation was dispatched on an auth field that is the token
\* followed by a line end, and succeeded; the token it was validated for is
\* no longer the current one
C20_Witness ==
  /\ ret.op = "dispatch"
  /\ ret.method = "kv.admin.rotateToken"
  /\ ret.auth = "t0\n"
  /\ ret.valid_for = "t0"
  /\ ret.response = "success"
  /\ srv.token_hex = "t1"

\* C21: the reporting methods health, usage, models, activeModels,
\* modelRegistry and swarmStatus are open: a request for one of them that
\* carries no auth field is not answered with the authentication error.
ReportingMethods ==
  {"kv.health", "kv.usage", "kv.models", "kv.activeModels", "kv.modelRegistry",
   "kv.swarmStatus"}

C21_ReportingOpen ==
  (ret.op = "request" /\ ret.method \in ReportingMethods /\ ret.auth = None)
    => ret.response # "auth_error"

\* what holds of the code: the five methods that requires_auth names are open
C21_OpenExceptUsage ==
  (ret.op = "request" /\ ret.method \in ReportingMethods \ {"kv.usage"} /\ ret.auth = None)
    => ret.response # "auth_error"
\* the requests of the caller that the limiter admitted in the window of
\* window_secs seconds that ends at t
AdmittedIn(caller, t) ==
  { i \in 1..Len(srv.admitted[caller]) :
      srv.admitted[caller][i] <= t /\ t - srv.admitted[caller][i] < window_secs }

\* the instants at which the number of admitted requests of the caller in
\* the window that ends there can have grown: its admissions, and now
WindowEnds(caller) ==
  { srv.admitted[caller][i] : i \in 1..Len(srv.admitted[caller]) } \cup {now}

\* C22: for each caller the limiter admits at most 100 requests in any
\* window of 60 seconds (the count of a window is largest when the window
\* ends at an admission); a request beyond that is answered with the
\* rate-limit error, which carries the seconds to wait, and is not handed to
\* a handler; whether a request is admitted depends on the caller's own
\* admitted requests only.
C22_LimiterCaps ==
  /\ \A caller \in Callers : \A t \in WindowEnds(caller) :
       Cardinality(AdmittedIn(caller, t)) <= max_requests
  /\ (ret.op = "request" /\ ret.response = "rate_limited") =>
       /\ Cardinality(AdmittedIn(ret.caller, now)) = max_requests
       /\ ret.retry_after_secs \in 1..window_secs
       /\ ret.retry_after_secs
            = window_secs - (now - srv.admitted[ret.caller][Len(srv.admitted[ret.caller]) - max_requests + 1])
       /\ \A c \in Conns : srv.conn[c].pc = "idle"
  /\ (ret.op = "request" /\ ret.response = "accepted") =>
       /\ srv.admitted[ret.caller] # <<>>
       /\ srv.admitted[ret.caller][Len(srv.admitted[ret.caller])] = now
       /\ \E c \in Conns : srv.conn[c].pc = "validated"

\* the first caller is refused one second before its window of 100
\* requests ends while the second caller has been served
C22_Witness ==
  /\ ret.op = "request" /\ ret.response = "rate_limited" /\ ret.caller = "anonymous"
  /\ ret.retry_after_secs = 1
  /\ now = 59
  /\ Len(srv.admitted["client-2"]) = MaxOther
\* C23: when rotate has returned the new token, the Keychain, the token file
\* and the guard hold it, it differs from the token it replaced, and until
\* the next rotation a request that carries the new token passes the auth
\* check while one that carries the replaced token gets the authentication
\* error.
C23_RotateReplaces ==
  /\ (ret.op = "dispatch" /\ ret.method = "kv.admin.rotateToken" /\ ret.response = "success") =>
       /\ srv.keychain = ret.new_token
       /\ load_file_token(srv.file) = ret.new_token
       /\ srv.token_hex = ret.new_token
       /\ srv.replaced = ret.old_token
       /\ ret.new_token # ret.old_token
       /\ validate(srv.token_hex, ret.new_token)
       /\ ~validate(srv.token_hex, ret.old_token)
  /\ (ret.op = "request" /\ ret.method \in MutatingMethods /\ srv.replaced # None) =>
       /\ ret.auth = srv.token_hex => ret.response # "auth_error"
       /\ ret.auth = srv.replaced => ret.response = "auth_error"

\* after a rotation a request with the replaced token has been refused
C23_Witness ==
  /\ ret.op = "request" /\ ret.method \in MutatingMethods
  /\ srv.replaced = Tokens[1] /\ srv.token_hex = Tokens[2]
  /\ srv.keychain = Tokens[2] /\ srv.file = token_file_of(Tokens[2])
  /\ ret.auth = srv.replaced
  /\ ret.response = "auth_error"
\* the three copies of the token after a start, and where the token came
\* from
BootReconciled ==
  LET loaded == ret.before.keychain
      from_file == load_file_token(ret.before.file) IN
  /\ srv.keychain = srv.token_hex
  /\ srv.file = token_file_of(srv.token_hex)
  /\ loaded # None => srv.token_hex = loaded
  /\ (loaded = None /\ from_file # "err") => srv.token_hex = from_file
  /\ (loaded = None /\ from_file = "err") =>
       /\ srv.token_hex = Tokens[ret.before.generated + 1]
       /\ srv.generated = ret.before.generated + 1

C25_RoundTrip ==
  /\ \A i \in 1..Len(vault.blobs) :
       LET b == vault.blobs[i] IN
       /\ decrypt(b.data, b.passphrase) = [ok |-> TRUE, plaintext |-> b.plaintext]
       /\ \A passphrase \in Passphrases \ {b.passphrase} :
            decrypt(b.data, passphrase) = [ok |-> FALSE]
       /\ \A j \in 1..Len(vault.blobs) : j # i => vault.blobs[j].data # b.data
  /\ (ret.op = "decrypt" /\ ~ret.damaged) =>
       ret.result = IF ret.passphrase = vault.blobs[ret.blob].passphrase
                    THEN [ok |-> TRUE, plaintext |-> vault.blobs[ret.blob].plaintext]
                    ELSE [ok |-> FALSE]

\* two blobs of the same plaintext and passphrase, the second one decrypted
C25_Witness ==
  /\ Len(vault.blobs) = 2
  /\ vault.blobs[1].plaintext = vault.blobs[2].plaintext
  /\ vault.blobs[1].passphrase = vault.blobs[2].passphrase
  /\ vault.blobs[1].plaintext # <<>>
  /\ ret.op = "decrypt" /\ ~ret.damaged /\ ret.blob = 2
  /\ ret.result = [ok |-> TRUE, plaintext |-> vault.blobs[1].plaintext]
\* the model m serves the complexity
Fits(m, complexity) ==
  /\ m \in ModelIds
  /\ ~ModelSpec(m).deprecated
  /\ ModelSpec(m).min_complexity <= complexity
  /\ complexity = Trivial => ModelSpec(m).free_rpd >= 1000
  /\ complexity = Expert => ModelSpec(m).code_quality >= 4

\* C26: for every complexity, and so for the complexity of every prompt,
\* select_model returns a registry model that is not deprecated and whose
\* min_complexity is at most the complexity; for trivial its free_rpd is at
\* least 1000, for expert its code_quality at least 4.
C26_SelectFits ==
  /\ \A complexity \in TaskComplexity : Fits(select_model(complexity), complexity)
  /\ ret.op = "classify" => ret.complexity \in TaskComplexity
  /\ ret.op = "select_model" =>
       /\ Fits(ret.model, ret.complexity)
       /\ ret.prompt # None => ret.complexity = classify(ret.prompt)

\* the prompt of the swarm classification scenario is trivial and gets a
\* model with free_rpd >= 1000
C26_Witness ==
  /\ ret.op = "select_model"
  /\ ret.prompt = "rename the variable foo to bar"
  /\ ret.complexity = Trivial
  /\ ModelSpec(ret.model).free_rpd >= 1000

\* the place of a model id in the cascade, 0 when it is not in it
CascadePos(id) ==
  IF \E p \in 1..Len(cascade) : cascade[p] = id
  THEN CHOOSE p \in 1..Len(cascade) : cascade[p] = id
  ELSE 0

\* C27: the fallback of a registry model, when there is one, is a model that
\* is not deprecated, stands strictly above it in the cascade lite -> flash
\* -> 3-flash -> 2.5-pro -> 3-pro and has at least its code_quality; the top
\* model has none; a chain of fallbacks ends after at most as many steps as
\* the registry has models.
C27_FallbackClimbs ==
  /\ \A m \in ModelIds :
       /\ fallback_model(m) # None =>
            /\ fallback_model(m) \in ModelIds
            /\ ~ModelSpec(fallback_model(m)).deprecated
            /\ CascadePos(m) >= 1
            /\ CascadePos(fallback_model(m)) > CascadePos(m)
            /\ ModelSpec(fallback_model(m)).code_quality >= ModelSpec(m).code_quality
       /\ CascadePos(m) = Len(cascade) => fallback_model(m) = None
  /\ ret.op = "fallback_model" =>
       /\ ret.steps <= Len(GOOGLE_MODELS)
       /\ ret.model # None =>
            /\ CascadePos(ret.model) > CascadePos(ret.current_model_id)
            /\ ModelSpec(ret.model).code_quality >= ModelSpec(ret.first).code_quality

\* the chain from the bottom of the cascade has reached its end at the top
C27_Witness ==
  /\ ret.op = "fallback_model"
  /\ ret.first = cascade[1]
  /\ ret.current_model_id = cascade[Len(cascade)]
  /\ ret.model = None
  /\ ret.steps = Len(cascade)
\* the tasks of the call that started in slot c, in the order submitted
TasksOf(c) == { t \in Tasks : task[t].kind \in {"parallel", "swarm"} /\ task[t].call = c }

\* C28: a parallel or swarm call returns one result per submitted task, the
\* i-th result being that of the i-th task, in whatever order the tasks end
\* and whether they succeed, fail or are rejected before dispatch.
C28_ResultsInOrder ==
  \A c \in Tasks :
    /\ Len(calls[c].results) <= calls[c].n
    /\ \A i \in 1..Len(calls[c].results) :
         /\ calls[c].results[i].label = i
         /\ \E t \in TasksOf(c) :
              /\ task[t].idx = i /\ task[t].pc = "done"
              /\ calls[c].results[i].ok = task[t].ok
              /\ calls[c].results[i].result = task[t].result
    /\ calls[c].returned =>
         /\ Len(calls[c].results) = calls[c].n
         /\ Cardinality(TasksOf(c)) = calls[c].n

\* a call of two tasks has returned; its second task was rejected before
\* dispatch or failed, its first task succeeded
C28_Witness ==
  \E c \in Tasks :
    /\ calls[c].returned /\ calls[c].n = 2
    /\ calls[c].results[1].ok
    /\ ~calls[c].results[2].ok
\* j: the tasks submitted before task t in its call for the same provider
EarlierFor(t) ==
  Cardinality({ u \in Tasks : /\ task[u].kind = "parallel"
                               /\ task[u].call = task[t].call
                               /\ task[u].idx < task[t].idx
                               /\ task[u].provider = task[t].provider })

\* C29: the j-th task of a generate_parallel call for a provider gets the
\* credential at index j modulo n of the active list loaded at entry,
\* whatever the shared cursor is, and makes at most one adapter call: after
\* a rate-limit failure it ends without trying another credential.
C29_ParallelRoundRobin ==
  \A t \in Tasks :
    (task[t].kind = "parallel" /\ task[t].pc # "assign") =>
      LET r == task[t]
          n == Len(r.active_keys) IN
      /\ n = 0 => (r.key_id = None /\ r.log = <<>>)
      /\ n > 0 => r.key_id = r.active_keys[(EarlierFor(t) % n) + 1]
      /\ Cardinality(CallsOf(r.log)) <= 1
      /\ Len(r.log) <= 1
      /\ \A i \in 1..Len(r.log) : r.log[i].key_id = r.key_id
      /\ (r.log # <<>> /\ r.log[Len(r.log)].ev = "429") =>
            (r.pc = "done" /\ ~r.ok /\ r.result = "GenerateFailed")

\* a parallel task was rate-limited on the credential of its own counter
\* while the shared cursor pointed at another one, and ended there
C29_Witness ==
  \E t \in Tasks :
    /\ task[t].kind = "parallel" /\ task[t].pc = "done"
    /\ Len(task[t].active_keys) = 2
    /\ task[t].log # <<>> /\ task[t].log[1].ev = "429"
    /\ counters[task[t].provider] % 2 # EarlierFor(t) % 2
    /\ task[t].key_id = task[t].active_keys[(EarlierFor(t) % 2) + 1]
\* the iterations of the retry loop a swarm task has begun
SwarmAttempts(t) ==
  IF task[t].pc \in {"record", "call"} THEN task[t].attempt + 1
  ELSE IF task[t].pc = "done" /\ task[t].result \in {"Ok", "GenerateFailed", "NoAdapter", "NoFallback"}
    THEN task[t].attempt + 1
  ELSE task[t].attempt

SwarmBound(t) ==
  LET r == task[t] IN
  /\ SwarmAttempts(t) <= MAX_RETRIES
  /\ Len(r.log) <= MAX_RETRIES
  /\ Cardinality(CallsOf(r.log)) <= MAX_RETRIES
  /\ r.retries <= MAX_RETRIES
  /\ r.attempt = MAX_RETRIES =>
       /\ r.pc = "done" /\ ~r.ok
       /\ r.result = "Exhausted" /\ r.key_id = "exhausted"
       /\ r.retries = MAX_RETRIES
       /\ r.last_error = r.log[Len(r.log)].ev

C31_DistinctCredentials ==
  \A t \in Tasks :
    task[t].kind = "single" =>
      \A i, j \in CallsOf(task[t].log) :
        i # j => task[t].log[i].key_id # task[t].log[j].key_id

\* what C32 asks of the log entry i of swarm task t: the task ended there
\* with the error, retries counts the earlier iterations only and the
\* credential was not marked
SwarmEndsAt(t, i) ==
  LET r == task[t] IN
  /\ Len(r.log) = i
  /\ r.pc = "done" /\ ~r.ok /\ r.result = "GenerateFailed"
  /\ r.last_error = r.log[i].ev
  /\ r.retries = i - 1
  /\ ~r.log[i].marked

\* C32: in the swarm an adapter error that is not a rate-limit error (an
\* auth rejection, a transport error) ends the task at once with ok=false
\* and the error, without another attempt, without incrementing retries
\* and without changing the credential's status.
C32_SwarmErrorEnds ==
  \A t \in Tasks : task[t].kind = "swarm" =>
    \A i \in 1..Len(task[t].log) :
      task[t].log[i].ev \in OtherErrors => SwarmEndsAt(t, i)

\* the same for the transport error alone, whose text holds none of the
\* three tokens
C32_TransportErrorEnds ==
  \A t \in Tasks : task[t].kind = "swarm" =>
    \A i \in 1..Len(task[t].log) :
      task[t].log[i].ev = "net" => SwarmEndsAt(t, i)

\* C33: the complexity in the result of every swarm task, the
\* no-credentials result included, is the explicit hint when present and
\* classify(prompt) otherwise, and a task that starts does so on the
\* explicit override when present and on select_model(complexity) otherwise.
C33_SwarmExpansion ==
  \A t \in Tasks : task[t].kind = "swarm" =>
    LET d == SwarmTasks[task[t].desc]
        complexity == IF d.complexity # -1 THEN d.complexity ELSE classify(d.prompt)
    IN /\ task[t].complexity = complexity
       /\ task[t].result # "NoCredentials" =>
            task[t].initial_model = (IF d.model # None THEN d.model
                                     ELSE select_model(complexity))

\* the same for the tasks of a call that found an active credential
C33_StartedExpansion ==
  \A t \in Tasks : (task[t].kind = "swarm" /\ task[t].result # "NoCredentials") =>
    LET d == SwarmTasks[task[t].desc]
        complexity == IF d.complexity # -1 THEN d.complexity ELSE classify(d.prompt)
    IN /\ task[t].complexity = complexity
       /\ task[t].initial_model = (IF d.model # None THEN d.model
                                   ELSE select_model(complexity))

\* the step in which the scan has finished probing scan.keys[scan.i]
ProbeStep == scan.pc = "probe" /\ scan' # scan

TrackedRpd(key_id, model_id) == check_capacity(windows, key_id, model_id, 0, 0)[3]

\* C35: the rpd that check and snapshot report for (k, m), and the rpd a
\* check of any pair would report now, is the number of record(k, m) calls
\* made on the current calendar day: the count starts again from 0 on the
\* first record or read of a new day, and within a day it never goes down.
C35_RpdCountsToday ==
  /\ [](/\ \A k \in KeyIds, m \in TrackerModels : TrackedRpd(k, m) = CallsToday(k, m)
        /\ ret.op = "check" => ret.rpd = CallsToday(ret.key_id, ret.model_id)
        /\ ret.op = "snapshot" =>
             \A row \in ret.rows : row.current_rpd = CallsToday(row.key_id, row.model_id))
  /\ [][today' = today =>
          \A x \in DOMAIN windows :
            /\ x \in DOMAIN windows'
            /\ windows'[x].daily_reset_day = today =>
                 (/\ windows[x].daily_reset_day = today =>
                       windows'[x].daily_count >= windows[x].daily_count)]_vars

\* a check on the second day reports the one call recorded since midnight
\* and not the call of the day before
C35_Witness ==
  /\ ret.op = "check" /\ ret.rpd = 1
  /\ Len(HistOf(ret.key_id, ret.model_id)) = 2
  /\ HistOf(ret.key_id, ret.model_id)[1].day < today
  /\ HistOf(ret.key_id, ret.model_id)[2].day = today

\* the signals of a prompt that the rules of C36 speak of
Signals(prompt) ==
  LET lower == to_lowercase(prompt) IN
  [words   |-> split_whitespace_count(prompt),
   expert  |-> \E i \in 1..Len(expert_patterns) : Contains(lower, expert_patterns[i]),
   trivial |-> \E i \in 1..Len(trivial_patterns) : Contains(lower, trivial_patterns[i]),
   simple  |-> \E i \in 1..Len(simple_patterns) : Contains(lower, simple_patterns[i]),
   complex |-> \E i \in 1..Len(complex_patterns) : Contains(lower, complex_patterns[i]),
   files   |-> SumSeq([i \in 1..Len(file_extensions) |->
                        matches_count(lower, file_extensions[i])]),
   medium  |-> Cardinality({ i \in 1..Len(medium_patterns) :
                               Contains(lower, medium_patterns[i]) })]

\* the rules in their priority: the result of the first one that matches
FirstRule(g) ==
  CASE g.expert -> Expert
    [] ~g.expert /\ g.words <= 15 /\ g.trivial -> Trivial
    [] ~g.expert /\ g.words <= 15 /\ ~g.trivial /\ g.simple -> Simple
    [] OTHER ->
       IF g.complex THEN Complex
       ELSE IF g.files >= 4 THEN Complex
       ELSE IF g.files >= 2 THEN Medium
       ELSE IF g.medium >= 2 THEN Medium
       ELSE IF g.simple THEN Simple
       ELSE IF g.trivial THEN Trivial
       ELSE IF g.words <= 20 THEN Simple
       ELSE IF g.words <= 80 THEN Medium
       ELSE Complex

\* C36: classify returns, for every prompt, the result of the first
\* matching rule of the fixed priority; an expert pattern always gives
\* expert, and a prompt of at most 15 words with a trivial keyword and no
\* expert pattern gives trivial even when it holds complex signals.
C36_ClassifyPriority ==
  (ret.op \in {"classify", "select_model"} /\ ret.prompt # None) =>
    LET g == Signals(ret.prompt) IN
    /\ ret.complexity \in TaskComplexity
    /\ ret.complexity = FirstRule(g)
    /\ g.expert => ret.complexity = Expert
    /\ (~g.expert /\ g.words <= 15 /\ g.trivial) => ret.complexity = Trivial

\* a short prompt with a trivial keyword and two complex signals has been
\* classified trivial
C36_Witness ==
  /\ ret.op = "classify" /\ ret.prompt = "rename the async parser"
  /\ Signals(ret.prompt).complex /\ Signals(ret.prompt).trivial
  /\ ret.complexity = Trivial

\* C37: under every interleaving of concurrent swarm tasks the tracker
\* holds, for every (credential, model) pair, at most free_rpm records of
\* the last 60 seconds.
C37_RecordsWithinRpm ==
  \A k \in KeyIds, m \in ModelIds : TrackedRpm(k, m) <= ModelSpec(m).free_rpm

\* C38: a credential that a discovery scan has quarantined keeps that
\* status: no step of a generation request changes it, also not the failure
\* of a call that was dispatched while the credential was active.
C38_QuarantineSticks ==
  [][\A k \in KeyIds : status[k] = "quarantined" => status'[k] = "quarantined"]_vars

\* C39: a rotation that returns an error leaves the old token in the
\* secret store, in the file and in memory, so the token the running daemon
\* accepts is at every moment the secret-store token, and a syncToken that
\* succeeds leaves the secret-store token in the file.
C39_NoPartialRotation ==
  /\ srv.up => srv.token_hex = srv.keychain
  /\ (ret.op = "dispatch" /\ ret.method = "kv.admin.rotateToken" /\ ret.response = "error")
       => (srv.keychain = ret.old_token /\ srv.token_hex = ret.old_token)
  /\ (ret.op = "dispatch" /\ ret.method = "kv.admin.syncToken" /\ ret.response = "success")
       => srv.file = token_file_of(srv.keychain)

\* C40: a failure while the scan processes one credential (decrypt failure,
\* failed probe, store error on the probe row or the status, removal of the
\* credential during the scan) does not keep the scan from the credentials
\* listed after it: a scan that has ended has reached every listed one.
C40_ScanReachesAll ==
  scan.pc = "done" => scan.i >= Len(scan.keys)

\* the same for the failures the loop handles itself: decrypt failure,
\* removal before the credential's turn, failed list_models or check_health
C40_HandledFailuresPass ==
  (scan.pc = "done" /\ ~scan.aborted) => scan.i = Len(scan.keys) + 1

====
